---- MODULE Spec2Model ----
(***************************************************************************)
(* juju-spell: the Connection Manager (juju_spell/connections/manager.py)  *)
(* and the Dispatch Runner (juju_spell/assignment/runner.py).              *)
(*                                                                         *)
(* One asyncio task is modelled.  A behaviour is a sequence of top-level    *)
(* calls of get_controller, clean and run, each cut into steps at its      *)
(* calls and awaits.  A run is the last call of a behaviour (the process   *)
(* that called run exits); the registry states a run may start from are    *)
(* those the calls of get_controller and clean before it produce.  The     *)
(* environment may close the connection behind a handle (Drop).            *)
(***************************************************************************)
EXTENDS Integers, Sequences, FiniteSets, TLC

\* ------------------------------------------------------------------ bounds
\* the number of controllers of the config
NumControllers == 2
\* the number of top-level calls of one behaviour
MaxCalls == 2

\* --------------------------------------------------------------- constants
None == "None"
PING_ACCESSIBLE == "accessible"
PING_UNREACHABLE == "unreachable"

RunTypes == {"serial", "batch", "parallel"}

\* config.controllers: controller i has a tunnel spec (connection) iff i is odd
Controller(i) ==
  [name |-> <<"name", i>>, uuid |-> <<"uuid", i>>,
   customer |-> <<"customer", i>>, endpoint |-> <<"remote", i>>,
   connection |-> (i % 2 = 1)]

Controllers == [i \in 1..NumControllers |-> Controller(i)]

\* config.connection["port-range"], cut to its first port: which free port the
\* shuffle picks changes no step of the manager or of the runner
port_range == 17071..17071

VARIABLES
  connections,   \* ConnectManager._connections: ordered dict, as a sequence
  handles,       \* every juju.Controller object created: target, connected, endpoint
  procs,         \* every tunnel subprocess spawned: target, kind, port, running
  call,          \* the top-level call in progress: idle, get_controller, clean, run
  ncalls,        \* number of top-level calls started
  outcome,       \* how the last top-level call ended
  mpc,           \* position inside the manager coroutine: none, disconnect, dial, clean
  gc,            \* frame of the latest get_controller/_connect
  cleanKeys,     \* clean(): the keys of the copy still to visit
  rpc,           \* position inside run
  phase,         \* run: pre_check or main
  idx,           \* run_serial: index of controller_config in config.controllers
  controller,    \* run_serial: the handle get_controller returned
  results,       \* run_serial: results
  parsed_args,   \* the caller's Namespace
  pending,       \* run: what the try block returned or raised, kept over finally
  cmdCalls,      \* log: command.run invocations of the current run
  cleanCalls,    \* log: connect_manager.clean() invocations of the current call
  preCheckCalls, \* log: pre_check invocations of the current run
  dispatches,    \* log: run_serial/run_batch/run_parallel invocations of the current run
  cleanStart,    \* log: the registry as it was when clean() started
  attempted,     \* log: handles clean() called disconnect on
  gcPath         \* log: the branch the latest get_controller took: cache, reconnect, connect

\* ListModelsCommand (commands/list_models.py) over FileCache (utils.py)
VARIABLES
  cache_directory, \* FileCache.cache_directory on disk: exists or absent
  cache_file,      \* the file cache_directory/fname of the controller
  now,             \* time()
  lpc,             \* position inside ListModelsCommand.execute
  kwargs,          \* execute's keyword arguments
  file_cache,      \* execute's local file_cache
  llog,            \* log: connect, commit, live query and warning counts of the call
  lastConnect,     \* log: what FileCache.connect found and did in the call
  complete,        \* log: the entries a commit wrote completely (or the file held at start)
  lout,            \* how the last execute (or read of expired) ended
  lcalls           \* number of calls started

\* GrantCommand (commands/grant.py) and AddUserCommand (commands/add_user.py)
VARIABLES
  upc,             \* position inside AddUserCommand.execute
  gpc,             \* position inside GrantCommand.execute
  uargs,           \* the arguments of the top-level command
  todo,            \* GrantCommand.execute: models still to come from get_filtered_models
  ulog,            \* log: the calls made on the controller and the sub-commands run
  gout,            \* how the latest GrantCommand.execute ended
  uout,            \* how the top-level command ended
  ucalls           \* number of top-level commands started

\* the helper functions of the commands and of the runner, applied on their own
VARIABLES
  applied          \* the function applied last, its arguments and what it gave

\* asyncio tasks that share the one ConnectManager (connections/manager.py)
VARIABLES
  tasks            \* per task: the frame of its get_controller call

\* FileCache (utils.py) over several keys
VARIABLES
  cache_files,     \* the files of cache_directory, by key
  cache_name,      \* the class attribute FileCache.cache_name
  fclog            \* log: the connect and commit calls made, in order

mgr == <<connections, handles, procs>>
frame == <<mpc, gc, cleanKeys>>
top == <<call, ncalls, outcome>>
loop == <<phase, idx, results, parsed_args>>
runlog == <<cmdCalls, preCheckCalls, dispatches>>
cleanlog == <<cleanCalls, cleanStart, attempted>>
logs == <<cmdCalls, preCheckCalls, dispatches, cleanCalls, cleanStart, attempted, gcPath>>
runnervars == <<connections, handles, procs, call, ncalls, outcome, mpc, gc, cleanKeys,
                rpc, phase, idx, controller, results, parsed_args, pending,
                cmdCalls, cleanCalls, preCheckCalls, dispatches, cleanStart, attempted,
                gcPath>>
cachevars == <<cache_directory, cache_file, now, lpc, kwargs, file_cache, llog,
               lastConnect, complete, lout, lcalls>>
uservars == <<upc, gpc, uargs, todo, ulog, gout, uout, ucalls>>
fcvars == <<cache_files, cache_name, fclog>>
restvars == <<applied, tasks, fcvars>>
cmdvars == <<cachevars, uservars, restvars>>
vars == <<runnervars, cachevars, uservars, restvars>>

\* ------------------------------------------------------------ values
NoConnection == [name |-> <<"name", 0>>, controller |-> 0, connection_process |-> 0]
NoFrame == [target |-> 0, sshuttle |-> FALSE, reconnect |-> FALSE, old |-> 0,
            controller |-> 0, connection_process |-> 0, local_endpoint |-> 0]
NoArgs == [pre_check |-> FALSE, run_type |-> "serial", controller_config |-> 0]
NoOutcome == [of |-> "none", kind |-> "none", handle |-> 0, results |-> <<>>, error |-> None]
Returned(of, h, rs) == [of |-> of, kind |-> "return", handle |-> h, results |-> rs, error |-> None]
Raised(of, e) == [of |-> of, kind |-> "raise", handle |-> 0, results |-> <<>>, error |-> e]

Result(success, output, error) == [success |-> success, output |-> output, error |-> error]

\* ------------------------------------------------ the registry (a dict)
Names(conns) == {conns[k].name : k \in DOMAIN conns}

\* dict.get(name): the entry, or None
Get(conns, name) ==
  IF name \in Names(conns)
  THEN conns[CHOOSE k \in DOMAIN conns : conns[k].name = name]
  ELSE NoConnection

KeepOthers(conns, name) ==
  LET other(c) == c.name /= name IN SelectSeq(conns, other)

\* del dict[name]
Del(conns, name) == KeepOthers(conns, name)

\* dict.setdefault(name, conn): an existing entry is kept
SetItem_KeepsExisting(conns, name, conn) ==
  IF name \in Names(conns) THEN conns ELSE Append(conns, conn)

\* dict[name] = conn: an existing key keeps its place, a new key goes last
SetItem(conns, name, conn) ==
  IF name \in Names(conns)
  THEN [k \in DOMAIN conns |-> IF conns[k].name = name THEN conn ELSE conns[k]]
  ELSE Append(conns, conn)

\* list(dict.copy().keys())
Keys(conns) == [k \in DOMAIN conns |-> conns[k].name]

Connection(name, h, p) == [name |-> name, controller |-> h, connection_process |-> p]

is_connected(h) == handles[h].connected

\* the identity of a new object: the first one no live object has
NewId(objs) ==
  CHOOSE n \in 1..(Cardinality(DOMAIN objs) + 1) :
    /\ n \notin DOMAIN objs
    /\ \A m \in 1..(n - 1) : m \in DOMAIN objs

\* objs with the new object obj
New(objs, obj) ==
  [n \in DOMAIN objs \cup {NewId(objs)} |-> IF n \in DOMAIN objs THEN objs[n] ELSE obj]

\* Between two top-level calls nothing but the registry refers to a controller
\* object or a subprocess object: the unreferenced objects are gone, except the
\* connections still open and the subprocesses still running.
LiveHandles ==
  LET keep == {h \in DOMAIN handles :
                 handles[h].connected
                 \/ \E k \in DOMAIN connections : connections[k].controller = h}
  IN [h \in keep |-> handles[h]]

LiveProcs ==
  LET keep == {p \in DOMAIN procs :
                 procs[p].running
                 \/ \E k \in DOMAIN connections : connections[k].connection_process = p}
  IN [p \in keep |-> procs[p]]

\* ---------------------------------------------- get_free_tcp_port
\* free: the ports _is_port_free reports free.  The shuffle makes any free port
\* of the range a possible result; 0 stands for the ValueError.
get_free_tcp_port(range, free) ==
  IF range \cap free = {} THEN {0} ELSE range \cap free

\* ------------------------------------------------ FileCache: values
\* utils.py line 36, in seconds
DEFAULT_TTL_RULE == 3600

\* FileCacheContext.timestamp's default: time() when the class was defined
ImportTime == 0

\* the fields of FileCacheContext in the order yaml.safe_dump writes them (sorted)
ContextKeys == <<"data", "name", "timestamp", "uuid">>

\* a dict of data: has is the set of its keys
Data(models, refresh, has) == [models |-> models, refresh |-> refresh, has |-> has]
EmptyData == Data("", FALSE, {})

\* FileCacheContext(uuid, name, data, timestamp)
FileCacheContext(uuid, name, data, timestamp) ==
  [uuid |-> uuid, name |-> name, data |-> data, timestamp |-> timestamp]

\* FileCacheContext(): every field at its default
DefaultContext == FileCacheContext("", "", EmptyData, ImportTime)

\* execute's file_cache = None
NoFileCache == FileCacheContext("None", "None", EmptyData, -1)

\* the text of a file.  kind: mapping (a YAML mapping holding the first n keys of
\* ContextKeys with the values of entry), unknown_key (a mapping with a key that is
\* no field), scalar (a document that is no mapping), invalid (no YAML)
Text(kind, entry, n) == [kind |-> kind, entry |-> entry, n |-> n]

\* yaml.safe_dump(self.context)
safe_dump(context) == Text("mapping", context, Len(ContextKeys))

\* the first k keys of a text: what a write that stopped early left in the file
Truncated(text, k) == [text EXCEPT !.n = k]

\* a file: absent, or present with its permissions and its text; last_write (a log):
\* how the commit that wrote the text ended (return, raise, killed), none for a file
\* found at the start
NoFile == [exists |-> FALSE, readable |-> FALSE, writable |-> FALSE,
           text |-> Text("mapping", DefaultContext, 0), last_write |-> "none"]
File(readable, writable, text) ==
  [exists |-> TRUE, readable |-> readable, writable |-> writable, text |-> text,
   last_write |-> "none"]

\* the controller the command runs on
controller_uuid == "uuid-1"
controller_name == "name-1"

\* the entry an earlier run of the command wrote at time 0
OldEntry == FileCacheContext(controller_uuid, controller_name,
                             Data("cached", FALSE, {"models", "refresh"}), 0)

\* ckind, cerror, cdir: how the commit of the call ended, and the directory it found
NoLog == [connect |-> 0, commit |-> 0, query |-> 0, warning |-> 0,
          ckind |-> "none", cerror |-> None, cdir |-> "none"]
NoConnect == [called |-> FALSE, file |-> NoFile, raised |-> FALSE, error |-> None,
              entry |-> NoFileCache]
NoLout == [of |-> "none", kind |-> "none", error |-> None, context |-> NoFileCache,
           expired |-> FALSE, at |-> 0]

\* the cache and the list-models command before any call
CacheIdle ==
  /\ cache_directory = "exists"
  /\ cache_file = NoFile
  /\ now = 0
  /\ lpc = "idle"
  /\ kwargs = [refresh |-> FALSE]
  /\ file_cache = NoFileCache
  /\ llog = NoLog
  /\ lastConnect = NoConnect
  /\ complete = {}
  /\ lout = NoLout
  /\ lcalls = 0

\* ------------------------------------------------ user commands: values
NoUargs == [command |-> "none", overwrite |-> FALSE, acl |-> None, password |-> ""]
\* the dict AddUserCommand.execute returns
UserRecord(user, display_name, password) ==
  [user |-> user, display_name |-> display_name, password |-> password]
\* how a command ended.  value: what was returned (True, the user record, or the
\* Result of the sub-command named by from)
NoUout == [kind |-> "none", value |-> None, success |-> FALSE, error |-> None,
           from |-> "none", record |-> UserRecord("", "", "")]

\* the grant and add-user commands before any call
UsersIdle ==
  /\ upc = "idle"
  /\ gpc = "idle"
  /\ uargs = NoUargs
  /\ todo = <<>>
  /\ ulog = <<>>
  /\ gout = NoUout
  /\ uout = NoUout
  /\ ucalls = 0

\* --------------------------------------------- helper functions: values
\* AddUserCommand.pre_check / RemoveUserCommand.pre_check: the arguments, whether
\* None or a Result was returned, the Result, whether it raised, and the calls
\* made on the controller
NoPreCheck == [command |-> "none", user |-> "none", config_user |-> "none",
               returns |-> "none", result |-> [success |-> FALSE, output |-> None,
                                               error |-> None],
               raised |-> FALSE, calls |-> <<>>]

\* get_result: the controller config and the Result before and after the call,
\* and the record returned
NoGetResult == [controller_config |-> <<>>, config_after |-> <<>>,
                output |-> [success |-> FALSE, output |-> None, error |-> None],
                output_after |-> [success |-> FALSE, output |-> None, error |-> None],
                record |-> <<>>]

\* parse_result: the lines of the text, whether it raised, the packages returned
NoParseResult == [lines |-> <<>>, raised |-> FALSE, error |-> None, packages |-> <<>>]

\* set_success_flags: the unit's parsed packages, the expected packages of the
\* application, and the unit's success flag after the call
NoSetSuccessFlags == [packages |-> {}, expected |-> {}, success |-> FALSE]

\* make_updates: the output of the unit's update command, whether make_updates
\* raised, and the Result it returned
NoMakeUpdates == [lines |-> <<>>, raised |-> FALSE, error |-> None,
                  result |-> [success |-> FALSE, output |-> None, error |-> None]]

\* one round of run_serial's loop: the Result command.run returned and the record
\* get_result made of it
NoRun == [command |-> "none", result |-> [success |-> FALSE, output |-> None, error |-> None],
          record |-> <<>>]

\* the resource filter: the models of the connection, the label-to-pattern
\* mapping, and the (label, model) pairs yielded, in order
NoFilter == [models |-> <<>>, mapping |-> <<>>, pairs |-> <<>>]

\* _connect on its own: the target, the sshuttle flag, the shuffled ports of the
\* range, the ports that are free, the ports probed in order, the port taken,
\* the exception raised, the subprocesses spawned, the endpoint dialled and
\* whether the registry got an entry
NoConnectOnce == [target |-> 0, sshuttle |-> FALSE, list_of_ports |-> <<>>, free |-> {},
              probes |-> <<>>, port |-> 0, raised |-> None, spawned |-> <<>>,
              endpoint |-> <<"none", 0>>, registered |-> FALSE]

\* RemoveUserCommand.execute: the filtered models, the steps that fail, the
\* sub-command runs in order, the warnings logged, and what was returned
NoRemoveUser == [models |-> <<>>, failing |-> {}, calls |-> <<>>, warnings |-> <<>>,
                 returned |-> "none"]

\* make_updates over the filtered models: the (name, model) pairs, the caller's
\* update specification before and after, the unit commands run in order, the
\* output dict (as a sequence of its items) and whether a unit command raised
NoUpdates == [pairs |-> <<>>, updates |-> <<>>, updates_after |-> <<>>, calls |-> <<>>,
              output |-> <<>>, raised |-> FALSE]

\* no function applied yet
NoApplied == [fn |-> "none", pre_check |-> NoPreCheck, get_result |-> NoGetResult,
              parse_result |-> NoParseResult, set_success_flags |-> NoSetSuccessFlags,
              make_updates |-> NoMakeUpdates, run |-> NoRun, filter |-> NoFilter,
              connect |-> NoConnectOnce, remove_user |-> NoRemoveUser,
              updates |-> NoUpdates]

\* the tasks that call get_controller
NumTasks == 2

\* a task that has not called get_controller yet
IdleTask == [pc |-> "idle", target |-> 0, sshuttle |-> FALSE, reconnect |-> FALSE,
             old |-> 0, controller |-> 0, connection_process |-> 0,
             local_endpoint |-> 0, path |-> "none", returned |-> 0, raised |-> None]

\* a key of the cache: the file name <command name>_<controller uuid> of target i
\* (list_models.py lines 52 and 66); NoKey is the empty name
NoKey == <<>>
Key(i) == <<"list_models", i>>
CacheKeys == {Key(i) : i \in 1..NumControllers}

RestIdle ==
  /\ applied = NoApplied
  /\ tasks = [t \in 1..NumTasks |-> IdleTask]
  /\ cache_files = [key \in CacheKeys |-> NoFile]
  /\ cache_name = NoKey
  /\ fclog = <<>>

\* the manager and the runner before any call
RunnerIdle ==
  /\ connections = <<>>
  /\ handles = <<>>
  /\ procs = <<>>
  /\ call = "idle"
  /\ ncalls = 0
  /\ outcome = NoOutcome
  /\ mpc = "none"
  /\ gc = NoFrame
  /\ cleanKeys = <<>>
  /\ rpc = "none"
  /\ phase = "none"
  /\ idx = 0
  /\ controller = 0
  /\ results = <<>>
  /\ parsed_args = NoArgs
  /\ pending = NoOutcome
  /\ cmdCalls = <<>>
  /\ cleanCalls = 0
  /\ preCheckCalls = 0
  /\ dispatches = <<>>
  /\ cleanStart = <<>>
  /\ attempted = {}
  /\ gcPath = "none"

Init ==
  /\ RunnerIdle
  /\ CacheIdle
  /\ UsersIdle
  /\ RestIdle

\* ------------------------------------------------ return to the caller
\* get_controller returns handle h: to run_serial (line 62) or to the top level
GcReturn(h) ==
  /\ call' = IF call = "run" THEN "run" ELSE "idle"
  /\ outcome' = IF call = "run" THEN outcome ELSE Returned("get_controller", h, <<>>)
  /\ rpc' = IF call = "run" THEN "command" ELSE rpc
  /\ controller' = IF call = "run" THEN h ELSE controller
  /\ pending' = pending

\* get_controller raises e: run_serial does not catch it, so run's try block ends
GcRaise(e) ==
  /\ call' = IF call = "run" THEN "run" ELSE "idle"
  /\ outcome' = IF call = "run" THEN outcome ELSE Raised("get_controller", e)
  /\ rpc' = IF call = "run" THEN "finally" ELSE rpc
  /\ controller' = controller
  /\ pending' = IF call = "run" THEN Raised("run", e) ELSE pending

\* clean returns (e = None) or raises e: inside run it is the finally block, whose
\* exception replaces what the try block returned or raised
CleanExit(e) ==
  /\ call' = "idle"
  /\ outcome' = IF call = "run"
                THEN IF e /= None THEN Raised("run", e) ELSE pending
                ELSE IF e /= None THEN Raised("clean", e) ELSE Returned("clean", 0, <<>>)
  /\ rpc' = IF call = "run" THEN "done" ELSE rpc
  /\ UNCHANGED <<controller, pending>>

\* ------------------------------------------------------- get_controller
\* "and reconnect" in the place of "and not reconnect"
CacheHit_OnReconnect(connection, reconnect) ==
  /\ connection /= NoConnection
  /\ is_connected(connection.controller)
  /\ reconnect

\* line 234: the cached handle is used
CacheHit(connection, reconnect) ==
  /\ connection /= NoConnection
  /\ is_connected(connection.controller)
  /\ ~reconnect

\* the cached handle is never disconnected before the new connection is made
NeedsDisconnect_Never(connection, reconnect) == FALSE

\* line 239: the cached handle is disconnected first
NeedsDisconnect(connection, reconnect) ==
  /\ connection /= NoConnection
  /\ reconnect

\* the remote endpoint dialled even when a port is forwarded
DialEndpoint_AlwaysRemote(cfg, local_endpoint) == cfg.endpoint

\* the endpoint _connect dials (line 195)
DialEndpoint(cfg, local_endpoint) ==
  IF local_endpoint /= 0 THEN <<"localhost", local_endpoint>> ELSE cfg.endpoint

\* _connect up to its await (lines 174-193), on the handles hs: the controller
\* object is created, the tunnel subprocess (if any) is spawned
ConnectBegin(old, hs, port) ==
  LET cfg == Controllers[gc.target]
      h == NewId(hs)
      p == NewId(procs)
      created == New(hs, [target |-> gc.target, connected |-> FALSE,
                          endpoint |-> <<"none", 0>>])
  IN /\ handles' = created
     /\ connections' = connections
     /\ IF cfg.connection /\ ~gc.sshuttle
        THEN IF port = 0
             THEN /\ procs' = procs
                  /\ mpc' = "none"
                  /\ gc' = [gc EXCEPT !.old = old, !.controller = h]
                  /\ GcRaise("ValueError")
             ELSE /\ procs' = New(procs, [target |-> gc.target, kind |-> "ssh",
                                          port |-> port, running |-> TRUE])
                  /\ mpc' = "dial"
                  /\ gc' = [gc EXCEPT !.old = old, !.controller = h,
                                      !.connection_process = p,
                                      !.local_endpoint = port]
                  /\ UNCHANGED <<call, outcome, rpc, controller, pending>>
        ELSE IF cfg.connection /\ gc.sshuttle
        THEN /\ procs' = New(procs, [target |-> gc.target, kind |-> "sshuttle",
                                     port |-> 0, running |-> TRUE])
             /\ mpc' = "dial"
             /\ gc' = [gc EXCEPT !.old = old, !.controller = h,
                                 !.connection_process = p]
             /\ UNCHANGED <<call, outcome, rpc, controller, pending>>
        ELSE /\ procs' = procs
             /\ mpc' = "dial"
             /\ gc' = [gc EXCEPT !.old = old, !.controller = h]
             /\ UNCHANGED <<call, outcome, rpc, controller, pending>>

\* a top-level caller invokes connect_manager.get_controller
CallGetController(i, sshuttle, reconnect) ==
  /\ call = "idle"
  /\ rpc /= "done"
  /\ ncalls < MaxCalls
  /\ call' = "get_controller"
  /\ ncalls' = ncalls + 1
  /\ outcome' = NoOutcome
  /\ mpc' = "begin"
  /\ gc' = [NoFrame EXCEPT !.target = i, !.sshuttle = sshuttle, !.reconnect = reconnect]
  /\ rpc' = "none"
  /\ controller' = 0
  /\ pending' = NoOutcome
  /\ phase' = "none"
  /\ idx' = 0
  /\ results' = <<>>
  /\ parsed_args' = NoArgs
  /\ cmdCalls' = <<>>
  /\ preCheckCalls' = 0
  /\ dispatches' = <<>>
  /\ cleanCalls' = 0
  /\ cleanStart' = <<>>
  /\ attempted' = {}
  /\ gcPath' = "none"
  /\ handles' = LiveHandles
  /\ procs' = LiveProcs
  /\ UNCHANGED <<connections, cleanKeys>>
  /\ UNCHANGED cmdvars

\* get_controller, lines 229-242, up to its first await
GcBegin(port) ==
  /\ mpc = "begin"
  /\ LET connection == Get(connections, Controllers[gc.target].name)
     IN IF CacheHit(connection, gc.reconnect)
        THEN /\ GcReturn(connection.controller)
             /\ mpc' = "none"
             /\ gc' = [gc EXCEPT !.old = connection.controller]
             /\ gcPath' = "cache"
             /\ UNCHANGED mgr
        ELSE IF NeedsDisconnect(connection, gc.reconnect)
        THEN /\ mpc' = "disconnect"
             /\ gc' = [gc EXCEPT !.old = connection.controller]
             /\ gcPath' = "reconnect"
             /\ UNCHANGED <<mgr, call, outcome, rpc, controller, pending>>
        ELSE /\ ConnectBegin(connection.controller, handles, port)
             /\ gcPath' = "connect"
  /\ UNCHANGED <<ncalls, cleanKeys, loop, runlog, cleanlog>>
  /\ UNCHANGED cmdvars

\* line 240: await connection.controller.disconnect(), then _connect up to its await
GcDisconnect(ok, port) ==
  /\ gcPath' = gcPath
  /\ mpc = "disconnect"
  /\ IF ok
     THEN ConnectBegin(gc.old, [handles EXCEPT ![gc.old].connected = FALSE], port)
     ELSE /\ GcRaise("DisconnectError")
          /\ mpc' = "none"
          /\ gc' = gc
          /\ UNCHANGED mgr
  /\ UNCHANGED <<ncalls, cleanKeys, loop, runlog, cleanlog>>
  /\ UNCHANGED cmdvars

\* lines 194-204: await controller.connect(...), then the Connection is registered
GcDial(ok) ==
  /\ gcPath' = gcPath
  /\ mpc = "dial"
  /\ LET cfg == Controllers[gc.target]
         h == gc.controller
         dialled == [handles EXCEPT ![h].endpoint = DialEndpoint(cfg, gc.local_endpoint)]
     IN IF ok
        THEN /\ handles' = [dialled EXCEPT ![h].connected = TRUE]
             /\ connections' = SetItem(connections, cfg.name,
                                       Connection(cfg.name, h, gc.connection_process))
             /\ GcReturn(h)
        ELSE /\ handles' = dialled
             /\ connections' = connections
             /\ GcRaise("ConnectError")
  /\ mpc' = "none"
  /\ gc' = gc
  /\ UNCHANGED <<procs, ncalls, cleanKeys, loop, runlog, cleanlog>>
  /\ UNCHANGED cmdvars

\* ---------------------------------------------------------------- clean
\* a top-level caller invokes connect_manager.clean
CallClean ==
  /\ call = "idle"
  /\ rpc /= "done"
  /\ ncalls < MaxCalls
  /\ call' = "clean"
  /\ ncalls' = ncalls + 1
  /\ outcome' = NoOutcome
  /\ mpc' = "clean_begin"
  /\ rpc' = "none"
  /\ controller' = 0
  /\ pending' = NoOutcome
  /\ phase' = "none"
  /\ idx' = 0
  /\ results' = <<>>
  /\ parsed_args' = NoArgs
  /\ cmdCalls' = <<>>
  /\ preCheckCalls' = 0
  /\ dispatches' = <<>>
  /\ cleanCalls' = 0
  /\ cleanStart' = <<>>
  /\ attempted' = {}
  /\ gcPath' = "none"
  /\ handles' = LiveHandles
  /\ procs' = LiveProcs
  /\ gc' = NoFrame
  /\ UNCHANGED <<connections, cleanKeys>>
  /\ UNCHANGED cmdvars

\* line 208: the keys of a copy of the registry
CleanBegin ==
  /\ gcPath' = gcPath
  /\ mpc = "clean_begin"
  /\ mpc' = "clean"
  /\ cleanKeys' = Keys(connections)
  /\ cleanCalls' = cleanCalls + 1
  /\ cleanStart' = connections
  /\ attempted' = {}
  /\ UNCHANGED <<mgr, top, gc, rpc, controller, pending, loop, runlog>>
  /\ UNCHANGED cmdvars

\* lines 209-219, one iteration: disconnect, terminate, del
CleanStep(ok) ==
  /\ gcPath' = gcPath
  /\ mpc = "clean"
  /\ cleanKeys /= <<>>
  /\ LET name == Head(cleanKeys)
         connection == Get(connections, name)
         h == connection.controller
         p == connection.connection_process
     IN /\ attempted' = attempted \cup {h}
        /\ IF ok
           THEN /\ handles' = [handles EXCEPT ![h].connected = FALSE]
                /\ procs' = IF p /= 0 THEN [procs EXCEPT ![p].running = FALSE] ELSE procs
                /\ connections' = Del(connections, name)
                /\ cleanKeys' = Tail(cleanKeys)
                /\ mpc' = "clean"
                /\ UNCHANGED <<call, outcome, rpc, controller, pending>>
           ELSE /\ UNCHANGED mgr
                /\ cleanKeys' = <<>>
                /\ mpc' = "none"
                /\ CleanExit("DisconnectError")
  /\ UNCHANGED <<ncalls, gc, loop, runlog, cleanCalls, cleanStart>>
  /\ UNCHANGED cmdvars

\* the loop is over: clean returns
CleanReturn ==
  /\ gcPath' = gcPath
  /\ mpc = "clean"
  /\ cleanKeys = <<>>
  /\ mpc' = "none"
  /\ CleanExit(None)
  /\ UNCHANGED <<mgr, ncalls, gc, cleanKeys, loop, runlog, cleanlog>>
  /\ UNCHANGED cmdvars

\* -------------------------------------------------------------- commands
\* PingCommand.execute
PingExecute(h) == IF is_connected(h) THEN PING_ACCESSIBLE ELSE PING_UNREACHABLE

\* what a command's execute may do: return an output or raise
ExecuteOutcomes == {[raised |-> FALSE, value |-> "output"],
                    [raised |-> TRUE, value |-> "Exception"]}

\* BaseJujuCommand.run: execute's output wrapped into a Result, an exception of
\* execute caught and returned as a failed Result
BaseRun(ex) ==
  IF ex.raised THEN Result(FALSE, None, ex.value) ELSE Result(TRUE, ex.value, None)

\* command.run(controller=h, ...) for the command of the current phase
CommandRun(command, h, ex) ==
  IF command = "ping"
  THEN BaseRun([raised |-> FALSE, value |-> PingExecute(h)])
  ELSE BaseRun(ex)

\* --------------------------------------------------------------- runner
\* values that hold a dataclass instance: the output of UpdatePackages (a dict of
\* model name to Updates, update_packages.py 97-108) and a sub-command's Result
\* handed on as output (add_user.py 59, 67)
UpdatesOutput == "{model: Updates(applications=[...])}"
ResultOutput == "Result(success=False, output=None, error=JujuError)"
Dataclasses == {UpdatesOutput, ResultOutput}

\* the dict dataclasses.asdict makes of a value that holds a dataclass instance
DictOf(value) ==
  IF value = UpdatesOutput THEN "{model: {applications: [...]}}"
  ELSE "{success: False, output: None, error: JujuError}"

\* every value copied as it is
asdict_inner_KeepsDataclasses(value) == value

\* dataclasses.asdict(output), one field: a nested dataclass instance (inside
\* dicts and lists too) becomes the dict of its fields, any other value a deep
\* copy with the same content
asdict_inner(value) == IF value \in Dataclasses THEN DictOf(value) ELSE value

\* the context tagged with the name in the place of the uuid
get_result_NameAsUuid(controller_config, output) ==
  [context |-> [uuid |-> controller_config.name,
                name |-> controller_config.name,
                customer |-> controller_config.customer],
   success |-> output.success,
   output |-> asdict_inner(output.output),
   error |-> asdict_inner(output.error)]

get_result(controller_config, output) ==
  [context |-> [uuid |-> controller_config.uuid,
                name |-> controller_config.name,
                customer |-> controller_config.customer],
   success |-> output.success,
   output |-> asdict_inner(output.output),
   error |-> asdict_inner(output.error)]

\* the ping command always handed to run_serial
PreCheckStrategy_AlwaysSerial(run_type) == "run_serial"

\* pre_check, lines 87-93: the function the ping command is handed to
PreCheckStrategy(run_type) ==
  IF run_type = "parallel" THEN "run_parallel"
  ELSE IF run_type = "batch" THEN "run_batch"
  ELSE "run_serial"

\* a strategy that is not implemented quietly handled by run_serial
RunStrategy_FallsBackToSerial(run_type) == "run_serial"

\* run, lines 110-117: the function the command is handed to
RunStrategy(run_type) ==
  IF run_type = "parallel" THEN "run_parallel"
  ELSE IF run_type = "batch" THEN "run_batch"
  ELSE "run_serial"

\* all() in the place of any(): the pre-check fails only if every target is
\* unreachable
PreCheckOk_All(result) ==
  ~ \A k \in DOMAIN result : result[k].output = PING_UNREACHABLE

\* pre_check, lines 94-96: the first element of the returned pair
PreCheckOk(result) ==
  ~ \E k \in DOMAIN result : result[k].output = PING_UNREACHABLE

\* run, line 104
UsePreCheck(args) == args.pre_check

\* clean() awaited after the try block instead of in a finally block: an exception
\* skips it
FinallyRuns_OnReturnOnly(kind) == kind = "return"

\* run, lines 102 and 118-119: clean() is in a finally block, so it runs however
\* the try block was left (kind: return or raise)
FinallyRuns(kind) == TRUE

\* a top-level caller invokes run(config, command, parsed_args)
CallRun(pre_check, run_type) ==
  /\ call = "idle"
  /\ rpc /= "done"
  /\ ncalls < MaxCalls
  /\ call' = "run"
  /\ ncalls' = ncalls + 1
  /\ outcome' = NoOutcome
  /\ rpc' = "start"
  /\ parsed_args' = [pre_check |-> pre_check, run_type |-> run_type,
                     controller_config |-> 0]
  /\ controller' = 0
  /\ pending' = NoOutcome
  /\ phase' = "none"
  /\ idx' = 0
  /\ results' = <<>>
  /\ cmdCalls' = <<>>
  /\ preCheckCalls' = 0
  /\ dispatches' = <<>>
  /\ cleanCalls' = 0
  /\ cleanStart' = <<>>
  /\ attempted' = {}
  /\ gcPath' = "none"
  /\ handles' = LiveHandles
  /\ procs' = LiveProcs
  /\ gc' = NoFrame
  /\ UNCHANGED <<connections, mpc, cleanKeys>>
  /\ UNCHANGED cmdvars

\* run, lines 102-105: pre_check is entered if parsed_args.pre_check
RunStart ==
  /\ gcPath' = gcPath
  /\ rpc = "start"
  /\ rpc' = "dispatch"
  /\ IF UsePreCheck(parsed_args)
     THEN phase' = "pre_check" /\ preCheckCalls' = preCheckCalls + 1
     ELSE phase' = "main" /\ preCheckCalls' = preCheckCalls
  /\ UNCHANGED <<mgr, top, frame, controller, pending, idx, results, parsed_args,
                 cmdCalls, dispatches, cleanlog>>
  /\ UNCHANGED cmdvars

\* pre_check lines 87-93, run lines 110-117: the strategy is chosen; run_parallel
\* and run_batch raise NotImplementedError, run_serial starts its loop
RunDispatch ==
  /\ gcPath' = gcPath
  /\ rpc = "dispatch"
  /\ LET fn == IF phase = "pre_check" THEN PreCheckStrategy(parsed_args.run_type)
                                      ELSE RunStrategy(parsed_args.run_type)
         command == IF phase = "pre_check" THEN "ping" ELSE "command"
     IN /\ dispatches' = Append(dispatches, [fn |-> fn, command |-> command,
                                              parsed_args |-> parsed_args])
        /\ IF fn = "run_serial"
           THEN /\ results' = <<>>
                /\ idx' = 1
                /\ rpc' = "loop"
                /\ pending' = pending
           ELSE /\ results' = results
                /\ idx' = idx
                /\ rpc' = "finally"
                /\ pending' = Raised("run", "NotImplementedError")
  /\ UNCHANGED <<mgr, top, frame, controller, phase, parsed_args, cmdCalls,
                 preCheckCalls, cleanlog>>
  /\ UNCHANGED cmdvars

\* run_serial, line 62: get_controller(controller_config, port_range)
SerialNext ==
  /\ gcPath' = gcPath
  /\ rpc = "loop"
  /\ idx <= NumControllers
  /\ rpc' = "connect"
  /\ mpc' = "begin"
  /\ gc' = [NoFrame EXCEPT !.target = idx]
  /\ UNCHANGED <<mgr, top, cleanKeys, controller, pending, loop, runlog, cleanlog>>
  /\ UNCHANGED cmdvars

\* run_serial, lines 63-68: the command runs on the handle; its result is recorded
RunCommand(ex) ==
  /\ gcPath' = gcPath
  /\ rpc = "command"
  /\ LET command == IF phase = "pre_check" THEN "ping" ELSE "command"
         controller_config == Controllers[idx]
         output == CommandRun(command, controller, ex)
     IN /\ parsed_args' = [parsed_args EXCEPT !.controller_config = idx]
        /\ cmdCalls' = Append(cmdCalls, [command |-> command, target |-> idx,
                                          controller |-> controller,
                                          controller_config |-> idx,
                                          output |-> output])
        /\ results' = Append(results, get_result(controller_config, output))
  /\ idx' = idx + 1
  /\ rpc' = "loop"
  /\ UNCHANGED <<mgr, top, frame, controller, pending, phase, preCheckCalls,
                 dispatches, cleanlog>>
  /\ UNCHANGED cmdvars

\* run_serial, line 70: the loop is over and results is returned, to pre_check
\* (lines 94-96, then run lines 108-109) or to run (line 117)
SerialReturn ==
  /\ gcPath' = gcPath
  /\ rpc = "loop"
  /\ idx > NumControllers
  /\ IF phase = "pre_check" /\ PreCheckOk(results)
     THEN /\ phase' = "main"
          /\ rpc' = "dispatch"
          /\ pending' = pending
     ELSE /\ phase' = phase
          /\ rpc' = "finally"
          /\ pending' = Returned("run", 0, results)
  /\ UNCHANGED <<mgr, top, frame, controller, idx, results, parsed_args, runlog,
                 cleanlog>>
  /\ UNCHANGED cmdvars

\* run, lines 118-119: the try block is left; connect_manager.clean() is awaited
RunFinally ==
  /\ rpc = "finally"
  /\ IF FinallyRuns(pending.kind)
     THEN /\ rpc' = "cleaning"
          /\ mpc' = "clean_begin"
          /\ UNCHANGED <<call, outcome>>
     ELSE /\ rpc' = "done"
          /\ mpc' = mpc
          /\ call' = "idle"
          /\ outcome' = pending
  /\ UNCHANGED <<mgr, ncalls, gc, cleanKeys, controller, pending, loop, logs>>
  /\ UNCHANGED cmdvars

\* ---------------------------------------------------------- environment
\* The connection behind a handle is lost: is_connected() turns False.  The program
\* sees a handle's state only where it calls is_connected (manager.py line 234,
\* ping.py line 12), so the loss is taken just before such a call.
Observed(h) ==
  \/ /\ mpc = "begin"
     /\ Get(connections, Controllers[gc.target].name).controller = h
  \/ /\ rpc = "command"
     /\ phase = "pre_check"
     /\ controller = h

Drop(h) ==
  /\ gcPath' = gcPath
  /\ handles[h].connected
  /\ Observed(h)
  /\ handles' = [handles EXCEPT ![h].connected = FALSE]
  /\ UNCHANGED <<connections, procs, top, frame, rpc, controller, pending, loop,
                 runlog, cleanlog>>
  /\ UNCHANGED cmdvars

Next ==
  \/ \E i \in 1..NumControllers, sshuttle \in BOOLEAN, reconnect \in BOOLEAN :
       CallGetController(i, sshuttle, reconnect)
  \/ \E free \in SUBSET port_range : \E port \in get_free_tcp_port(port_range, free) :
       GcBegin(port)
  \/ \E ok \in BOOLEAN, free \in SUBSET port_range :
       \E port \in get_free_tcp_port(port_range, free) : GcDisconnect(ok, port)
  \/ \E ok \in BOOLEAN : GcDial(ok)
  \/ CallClean
  \/ CleanBegin
  \/ \E ok \in BOOLEAN : CleanStep(ok)
  \/ CleanReturn
  \/ \E pre_check \in BOOLEAN, run_type \in RunTypes : CallRun(pre_check, run_type)
  \/ RunStart
  \/ RunDispatch
  \/ SerialNext
  \/ \E ex \in ExecuteOutcomes : RunCommand(ex)
  \/ SerialReturn
  \/ RunFinally
  \/ \E h \in DOMAIN handles : Drop(h)

Spec == Init /\ [][Next]_vars

\* =========================================================================
\* FileCache (utils.py) and ListModelsCommand (commands/list_models.py).
\* A behaviour is a sequence of calls of ListModelsCommand.execute and of
\* FileCache.connect(fname).expired for one controller, over one cache file.
\* A call whose process is killed while commit writes is followed by the calls
\* of a later process.
\* =========================================================================

\* the number of calls (of execute, of connect) in one behaviour
MaxExecs == 2

\* the three messages of the JujuSpellError FileCache raises
NotFound == "JujuSpellError: does not exists"
PermissionDenied == "JujuSpellError: permission denied"
Wrapped == "JujuSpellError: str(error)"
IsJujuSpellError(e) == e \in {NotFound, PermissionDenied, Wrapped}

\* the key k of ContextKeys is among the first n
HasKey(text, key) ==
  \E i \in 1..Len(ContextKeys) : ContextKeys[i] = key /\ i <= text.n

\* the timestamp of the mapping left out: the entry gets the default one
FromMapping_DefaultTimestamp(text) ==
  FileCacheContext(
    IF HasKey(text, "uuid") THEN text.entry.uuid ELSE DefaultContext.uuid,
    IF HasKey(text, "name") THEN text.entry.name ELSE DefaultContext.name,
    IF HasKey(text, "data") THEN text.entry.data ELSE DefaultContext.data,
    DefaultContext.timestamp)

\* cls(**data) for the mapping of a text: a field the mapping lacks has its default
FromMapping(text) ==
  FileCacheContext(
    IF HasKey(text, "uuid") THEN text.entry.uuid ELSE DefaultContext.uuid,
    IF HasKey(text, "name") THEN text.entry.name ELSE DefaultContext.name,
    IF HasKey(text, "data") THEN text.entry.data ELSE DefaultContext.data,
    IF HasKey(text, "timestamp") THEN text.entry.timestamp ELSE DefaultContext.timestamp)

\* yaml.safe_load(file) and cls(**data), lines 156-158: the entry, or the exception.
\* An empty document loads as None, and cls(**None) is a TypeError.
Deserialize(text) ==
  IF text.kind = "invalid" THEN [raised |-> TRUE, error |-> "YAMLError", entry |-> NoFileCache]
  ELSE IF text.kind \in {"scalar", "unknown_key"} \/ text.n = 0
  THEN [raised |-> TRUE, error |-> "TypeError", entry |-> NoFileCache]
  ELSE [raised |-> FALSE, error |-> None, entry |-> FromMapping(text)]

\* every failure reported as permission denied
ConnectError_AlwaysPermissionDenied(error) == PermissionDenied

\* FileCache.connect, lines 159-166: the JujuSpellError raised for an exception
ConnectError(error) ==
  IF error = "FileNotFoundError" THEN NotFound
  ELSE IF error = "PermissionError" THEN PermissionDenied
  ELSE Wrapped

\* FileCache.connect(backend), lines 153-166, on the file as it is; io: whether
\* reading the open file works ("ok") or fails ("OSError")
connect(file, io) ==
  LET opened == IF ~file.exists THEN "FileNotFoundError"
                ELSE IF ~file.readable THEN "PermissionError"
                ELSE io
      loaded == Deserialize(file.text)
  IN IF opened /= "ok"
     THEN [raised |-> TRUE, error |-> ConnectError(opened), entry |-> NoFileCache]
     ELSE IF loaded.raised
     THEN [raised |-> TRUE, error |-> ConnectError(loaded.error), entry |-> NoFileCache]
     ELSE [raised |-> FALSE, error |-> None, entry |-> loaded.entry]

\* "<=" in the place of "<"
expired_AtBoundary(fc, t) == fc.timestamp + DEFAULT_TTL_RULE <= t

\* FileCache.expired, line 109, at time t; policy["ttl"] is DEFAULT_TTL_RULE
expired(fc, t) == fc.timestamp + DEFAULT_TTL_RULE < t

\* file_cache.need_refresh, list_models.py line 24: neither FileCache nor Cache nor
\* FileCacheContext defines need_refresh, so the attribute lookup raises
need_refresh(fc, t) == [raised |-> TRUE, error |-> "AttributeError", value |-> FALSE]

\* What happens to a commit: mkdir fails (two ways), open fails (two ways), the
\* write completes, the write fails after k keys, the process is killed before the
\* file is opened or after k keys were written.
CommitEnvs ==
  {[step |-> st, error |-> e, k |-> 0] :
      st \in {"mkdir"}, e \in {"FileNotFoundError", "PermissionError"}}
  \cup {[step |-> "open", error |-> e, k |-> 0] : e \in {"PermissionError", "OSError"}}
  \cup {[step |-> "write", error |-> "ok", k |-> Len(ContextKeys)]}
  \cup {[step |-> "write", error |-> "OSError", k |-> k] : k \in 0..(Len(ContextKeys) - 1)}
  \cup {[step |-> "killed", error |-> "before_open", k |-> 0]}
  \cup {[step |-> "killed", error |-> "in_write", k |-> k] : k \in 0..(Len(ContextKeys) - 1)}

\* the commit envs that can happen to the directory and file as they are
CanHappen(env, dir, file) ==
  /\ env.step = "mkdir" => dir = "absent"
  /\ (file.exists /\ ~file.writable) => env.step \in {"mkdir", "open", "killed"}
  /\ (file.exists /\ ~file.writable /\ env.step = "open") => env.error = "PermissionError"
  /\ (file.exists /\ ~file.writable /\ env.step = "killed") => env.error = "before_open"

\* open(fname, "w"): the file exists and is empty
Opened(file) ==
  IF file.exists THEN [file EXCEPT !.text = Truncated(file.text, 0),
                                   !.text.kind = "mapping"]
  ELSE File(TRUE, TRUE, Text("mapping", DefaultContext, 0))

\* the directory is made inside the try block: its failure is wrapped as well
MkdirError_Wrapped(error) == Wrapped

\* FileCache.commit, lines 131-132: mkdir is outside the try block, so its
\* exception leaves commit as it is
MkdirError(error) == error

\* FileCache.commit, lines 145-148: the JujuSpellError raised for an exception
CommitError(error) ==
  IF error = "PermissionError" THEN PermissionDenied ELSE Wrapped

\* FileCache.commit(name), lines 131-148, of the entry fc under env: the directory
\* and the file afterwards, and how commit ended
commit(fc, dir, file, env) ==
  IF env.step = "mkdir"
  THEN [dir |-> dir, file |-> file, kind |-> "raise", error |-> MkdirError(env.error)]
  ELSE IF env.step = "killed" /\ env.error = "before_open"
  THEN [dir |-> dir, file |-> file, kind |-> "killed", error |-> None]
  ELSE IF env.step = "open"
  THEN [dir |-> "exists", file |-> file, kind |-> "raise", error |-> CommitError(env.error)]
  ELSE LET written == [Opened(file) EXCEPT
                         !.text = Truncated(safe_dump(fc), env.k),
                         !.last_write = IF env.step = "killed" THEN "killed"
                                        ELSE IF env.error = "ok" THEN "return"
                                        ELSE "raise"]
       IN IF env.step = "killed"
          THEN [dir |-> "exists", file |-> written, kind |-> "killed", error |-> None]
          ELSE IF env.error = "ok"
          THEN [dir |-> "exists", file |-> written, kind |-> "return", error |-> None]
          ELSE [dir |-> "exists", file |-> written, kind |-> "raise",
                error |-> CommitError(env.error)]

\* the entries a file holds completely
CompleteIn(file) ==
  IF file.exists /\ file.text.kind = "mapping" /\ file.text.n = Len(ContextKeys)
  THEN {file.text.entry} ELSE {}

\* the files the command may find: none, the entry of an earlier run (also unreadable
\* or read-only), or a file with other content
InitialFiles ==
  {NoFile,
   File(TRUE, TRUE, safe_dump(OldEntry)),
   File(FALSE, TRUE, safe_dump(OldEntry)),
   File(TRUE, FALSE, safe_dump(OldEntry)),
   File(TRUE, TRUE, Text("invalid", DefaultContext, 0)),
   File(TRUE, TRUE, Text("scalar", DefaultContext, 0)),
   File(TRUE, TRUE, Text("unknown_key", DefaultContext, 1))}

InitListModels ==
  /\ RunnerIdle
  /\ UsersIdle
  /\ RestIdle
  /\ cache_directory \in {"exists", "absent"}
  /\ cache_file \in InitialFiles
  /\ cache_directory = "absent" => cache_file = NoFile
  /\ complete = CompleteIn(cache_file)
  /\ now = 0
  /\ lpc = "idle"
  /\ kwargs = [refresh |-> FALSE]
  /\ file_cache = NoFileCache
  /\ llog = NoLog
  /\ lastConnect = NoConnect
  /\ lout = NoLout
  /\ lcalls = 0

\* execute ends: it returns context or raises error
ExecReturned(context) ==
  [NoLout EXCEPT !.of = "execute", !.kind = "return", !.context = context, !.at = now]
ExecRaised(error) ==
  [NoLout EXCEPT !.of = "execute", !.kind = "raise", !.error = error, !.at = now]

\* the time that may pass before a call: none, the ttl, a second more than the ttl
Elapsed == {0, DEFAULT_TTL_RULE, DEFAULT_TTL_RULE + 1}

\* a caller invokes ListModelsCommand.execute(controller, refresh=refresh, ...),
\* the time d after the call before
CallExecute(refresh, d) ==
  /\ lpc \in {"idle", "done", "killed"}
  /\ lcalls < MaxExecs
  /\ lcalls' = lcalls + 1
  /\ now' = now + d
  /\ lpc' = "load"
  /\ kwargs' = [refresh |-> refresh]
  /\ file_cache' = NoFileCache
  /\ llog' = NoLog
  /\ lastConnect' = NoConnect
  /\ lout' = NoLout
  /\ UNCHANGED <<cache_directory, cache_file, complete>>
  /\ UNCHANGED <<runnervars, uservars, restvars>>

\* execute lines 19-22 with load_cache_data, lines 64-79: unless refresh is set the
\* cache is read; a JujuSpellError of connect is logged and leaves file_cache None
ExecLoad(io) ==
  /\ lpc = "load"
  /\ lpc' = "check"
  /\ IF kwargs.refresh
     THEN UNCHANGED <<file_cache, llog, lastConnect>>
     ELSE LET c == connect(cache_file, io)
          IN /\ lastConnect' = [called |-> TRUE, file |-> cache_file, raised |-> c.raised,
                                error |-> c.error, entry |-> c.entry]
             /\ IF c.raised
                THEN /\ file_cache' = NoFileCache
                     /\ llog' = [llog EXCEPT !.connect = @ + 1, !.warning = @ + 1]
                ELSE /\ file_cache' =
                          [c.entry EXCEPT !.data.refresh = FALSE,
                                          !.data.has = @ \cup {"refresh"}]
                     /\ llog' = [llog EXCEPT !.connect = @ + 1]
  /\ UNCHANGED <<cache_directory, cache_file, now, kwargs, complete, lout, lcalls>>
  /\ UNCHANGED <<runnervars, uservars, restvars>>

\* execute line 24: refresh, or no file cache, or file_cache.need_refresh
ExecCheck ==
  /\ lpc = "check"
  /\ IF kwargs.refresh \/ file_cache = NoFileCache
     THEN lpc' = "query" /\ lout' = lout
     ELSE LET r == need_refresh(file_cache, now)
          IN IF r.raised
             THEN lpc' = "done" /\ lout' = ExecRaised(r.error)
             ELSE /\ lpc' = IF r.value THEN "query" ELSE "return"
                  /\ lout' = lout
  /\ UNCHANGED <<cache_directory, cache_file, now, kwargs, file_cache, llog,
                 lastConnect, complete, lcalls>>
  /\ UNCHANGED <<runnervars, uservars, restvars>>

\* what the live controller holds
LiveModels == "live"

\* get_filtered_model_names (BaseJujuCommand): the models are listed on the live
\* controller, once; the listing may fail
get_filtered_model_names(ok) ==
  IF ok THEN [raised |-> FALSE, value |-> LiveModels]
        ELSE [raised |-> TRUE, value |-> "JujuError"]

\* save_cache_data catching every exception of commit
SaveCatches_Exception(error) == TRUE

\* save_cache_data, line 60: except JujuSpellError
SaveCatches(error) == IsJujuSpellError(error)

\* execute lines 25-38 with save_cache_data, lines 45-62: the models are listed on
\* the live controller and committed to the cache with the time of now
ExecRecompute(ok, env) ==
  /\ lpc = "query"
  /\ CanHappen(env, cache_directory, cache_file)
  /\ LET q == get_filtered_model_names(ok)
         fc == FileCacheContext(controller_uuid, controller_name,
                                Data(q.value, kwargs.refresh, {"models", "refresh"}), now)
         c == commit(fc, cache_directory, cache_file, env)
     IN IF q.raised
        THEN /\ lpc' = "done"
             /\ lout' = ExecRaised(q.value)
             /\ llog' = [llog EXCEPT !.query = @ + 1]
             /\ UNCHANGED <<cache_directory, cache_file, file_cache, complete>>
        ELSE /\ cache_directory' = c.dir
             /\ cache_file' = c.file
             /\ complete' = complete \cup CompleteIn(c.file)
             /\ file_cache' = fc
             /\ IF c.kind = "killed"
                THEN /\ lpc' = "killed"
                     /\ lout' = [NoLout EXCEPT !.of = "execute", !.kind = "killed",
                                                !.context = fc, !.at = now]
                     /\ llog' = [llog EXCEPT !.query = @ + 1, !.commit = @ + 1, !.ckind = c.kind,
                                             !.cerror = c.error, !.cdir = cache_directory]
                ELSE IF c.kind = "raise" /\ ~SaveCatches(c.error)
                THEN /\ lpc' = "done"
                     /\ lout' = ExecRaised(c.error)
                     /\ llog' = [llog EXCEPT !.query = @ + 1, !.commit = @ + 1, !.ckind = c.kind,
                                             !.cerror = c.error, !.cdir = cache_directory]
                ELSE /\ lpc' = "return"
                     /\ lout' = lout
                     /\ llog' = [llog EXCEPT !.query = @ + 1, !.commit = @ + 1, !.ckind = c.kind,
                                             !.cerror = c.error, !.cdir = cache_directory,
                                             !.warning = @ + (IF c.kind = "raise" THEN 1 ELSE 0)]
  /\ UNCHANGED <<now, kwargs, lastConnect, lcalls>>
  /\ UNCHANGED <<runnervars, uservars, restvars>>

\* execute lines 40-43: file_cache.data["models"] is logged, the context returned
ExecReturn ==
  /\ lpc = "return"
  /\ lpc' = "done"
  /\ lout' = IF "models" \in file_cache.data.has
             THEN ExecReturned(file_cache)
             ELSE ExecRaised("KeyError")
  /\ UNCHANGED <<cache_directory, cache_file, now, kwargs, file_cache, llog,
                 lastConnect, complete, lcalls>>
  /\ UNCHANGED <<runnervars, uservars, restvars>>

\* a caller evaluates FileCache.connect(fname).expired, the time d after the call
\* before
ConnectExpired(io, d) ==
  /\ lpc \in {"idle", "done", "killed"}
  /\ lcalls < MaxExecs
  /\ lcalls' = lcalls + 1
  /\ now' = now + d
  /\ lpc' = "done"
  /\ LET c == connect(cache_file, io)
     IN /\ lastConnect' = [called |-> TRUE, file |-> cache_file, raised |-> c.raised,
                           error |-> c.error, entry |-> c.entry]
        /\ file_cache' = c.entry
        /\ lout' = IF c.raised
                   THEN [NoLout EXCEPT !.of = "connect", !.kind = "raise",
                                       !.error = c.error, !.at = now']
                   ELSE [NoLout EXCEPT !.of = "connect", !.kind = "expired",
                                       !.context = c.entry,
                                       !.expired = expired(c.entry, now'), !.at = now']
  /\ llog' = NoLog
  /\ kwargs' = [refresh |-> FALSE]
  /\ UNCHANGED <<cache_directory, cache_file, complete>>
  /\ UNCHANGED <<runnervars, uservars, restvars>>

NextListModels ==
  \/ \E refresh \in BOOLEAN, d \in Elapsed : CallExecute(refresh, d)
  \/ \E io \in {"ok", "OSError"} : ExecLoad(io)
  \/ ExecCheck
  \/ \E ok \in BOOLEAN, env \in CommitEnvs : ExecRecompute(ok, env)
  \/ ExecReturn
  \/ \E io \in {"ok", "OSError"}, d \in Elapsed : ConnectExpired(io, d)

SpecListModels == InitListModels /\ [][NextListModels]_vars

\* =========================================================================
\* GrantCommand (commands/grant.py), EnableUserCommand (commands/enable_user.py)
\* and AddUserCommand (commands/add_user.py).  A behaviour is a sequence of
\* top-level calls of GrantCommand.execute and AddUserCommand.execute on one
\* controller; AddUserCommand runs EnableUserCommand and GrantCommand through
\* BaseJujuCommand.run.
\* =========================================================================

\* the number of models get_filtered_models yields
NumModels == 2
\* the number of top-level commands in one behaviour
MaxCommands == 2

CONTROLLER_ACL_CHOICES == {"login", "add-model", "superuser"}
MODEL_ACL_CHOICES == {"read", "write", "admin"}
ACL_CHOICES == CONTROLLER_ACL_CHOICES \cup MODEL_ACL_CHOICES

\* the acl handed to the controller as it was given
get_controller_acl_AsGiven(acl) == acl

\* GrantCommand.get_controller_acl
get_controller_acl(acl) == IF acl \in CONTROLLER_ACL_CHOICES THEN acl ELSE "login"

\* GrantCommand.get_model_acl
get_model_acl(acl) ==
  IF acl \in MODEL_ACL_CHOICES THEN acl
  ELSE IF acl = "superuser" THEN "admin"
  ELSE "read"

\* get_filtered_models (BaseJujuCommand): the models of the controller, in order
get_filtered_models == [m \in 1..NumModels |-> m]

\* one call made on the controller, and whether it worked; op "fail" is the log
\* line of a failed per-model grant.  args: the arguments of the calls of
\* AddUserCommand (for get_user: the username and what was returned)
Called(op, model, acl, ok) ==
  [op |-> op, model |-> model, acl |-> acl, ok |-> ok, args |-> <<>>]

\* a call on the controller (or on the user) with the keyword arguments args
CalledWith(op, args, ok) == [Called(op, 0, None, ok) EXCEPT !.args = args]

\* how GrantCommand.execute ends, as BaseRun takes it
GrantReturned == [raised |-> FALSE, value |-> "True"]
GrantRaised == [raised |-> TRUE, value |-> "JujuError"]

\* GrantCommand.execute is left with ex: a top-level call is over, a sub-command's
\* run hands its Result to AddUserCommand.execute (add_user.py line 63)
GrantEnd(ex) ==
  /\ gpc' = "idle"
  /\ todo' = <<>>
  /\ IF uargs.command = "grant"
     THEN /\ upc' = "done"
          /\ gout' = gout
          /\ uout' = [NoUout EXCEPT !.kind = IF ex.raised THEN "raise" ELSE "return",
                                    !.value = IF ex.raised THEN None ELSE ex.value,
                                    !.success = ~ex.raised,
                                    !.error = IF ex.raised THEN ex.value ELSE None,
                                    !.from = "grant"]
     ELSE /\ upc' = "after_grant"
          /\ gout' = [NoUout EXCEPT !.kind = "return", !.value = "Result",
                                    !.success = BaseRun(ex).success,
                                    !.error = BaseRun(ex).error,
                                    !.from = "grant"]
          /\ uout' = uout

\* a caller invokes GrantCommand.execute(controller, overwrite=..., acl=..., ...)
CallGrant(overwrite, acl) ==
  /\ upc \in {"idle", "done"}
  /\ ucalls < MaxCommands
  /\ ucalls' = ucalls + 1
  /\ uargs' = [command |-> "grant", overwrite |-> overwrite, acl |-> acl,
               password |-> ""]
  /\ upc' = "grant"
  /\ gpc' = "start"
  /\ todo' = <<>>
  /\ ulog' = <<>>
  /\ gout' = NoUout
  /\ uout' = NoUout
  /\ UNCHANGED <<runnervars, cachevars, restvars>>

\* the controller-level grant inside the try block of the per-model grants
GrantTolerated_Always(overwrite) == overwrite

\* GrantCommand.execute line 72: controller.grant is awaited outside any try block,
\* so its JujuError is never tolerated
GrantTolerated(overwrite) == FALSE

\* GrantCommand.execute lines 61-78: the controller-level grant, then the models
GrantStart(ok) ==
  /\ gpc = "start"
  /\ ulog' = Append(ulog, Called("grant", 0, get_controller_acl(uargs.acl), ok))
  /\ IF ok \/ GrantTolerated(uargs.overwrite)
     THEN /\ gpc' = "models"
          /\ todo' = get_filtered_models
          /\ UNCHANGED <<upc, gout, uout>>
     ELSE GrantEnd(GrantRaised)
  /\ UNCHANGED <<uargs, ucalls>>
  /\ UNCHANGED <<runnervars, cachevars, restvars>>

\* the JujuError of grant_model raised again whatever overwrite is
ModelTolerated_Never(overwrite) == FALSE

\* GrantCommand.execute lines 100-101: if not overwrite: raise err
ModelTolerated(overwrite) == overwrite

\* GrantCommand.execute lines 79-101, one model: grant_model, its JujuError logged
\* ("... Grant model ... fail", lines 93-99) and, unless overwrite is set, raised
\* again
GrantModel(ok) ==
  /\ gpc = "models"
  /\ todo /= <<>>
  /\ LET granted == Append(ulog, Called("grant_model", Head(todo),
                                         get_model_acl(uargs.acl), ok))
     IN ulog' = IF ok THEN granted
                ELSE Append(granted, Called("fail", Head(todo),
                                            get_model_acl(uargs.acl), TRUE))
  /\ IF ok \/ ModelTolerated(uargs.overwrite)
     THEN /\ todo' = Tail(todo)
          /\ UNCHANGED <<upc, gpc, gout, uout>>
     ELSE GrantEnd(GrantRaised)
  /\ UNCHANGED <<uargs, ucalls>>
  /\ UNCHANGED <<runnervars, cachevars, restvars>>

\* GrantCommand.execute line 102: return True
GrantReturn ==
  /\ gpc = "models"
  /\ todo = <<>>
  /\ GrantEnd(GrantReturned)
  /\ UNCHANGED <<uargs, ulog, ucalls>>
  /\ UNCHANGED <<runnervars, cachevars, restvars>>

\* a caller invokes AddUserCommand.execute(controller, overwrite=..., acl=..., ...)
CallAddUser(overwrite, acl, password) ==
  /\ upc \in {"idle", "done"}
  /\ ucalls < MaxCommands
  /\ ucalls' = ucalls + 1
  /\ uargs' = [command |-> "add_user", overwrite |-> overwrite, acl |-> acl,
               password |-> password]
  /\ upc' = "get_user"
  /\ gpc' = "idle"
  /\ todo' = <<>>
  /\ ulog' = <<>>
  /\ gout' = NoUout
  /\ uout' = NoUout
  /\ UNCHANGED <<runnervars, cachevars, restvars>>

\* kwargs["user"], kwargs["display_name"], and the passwords kwargs["password"]
\* may be: none given (the empty string) or one given
GivenUser == "new-user"
GivenDisplayName == "new-user-display-name"
Passwords == {"", "new-user-pwd"}

\* utils.random_password()
random_password == "random-password"

\* the given password used even when it is empty
EffectivePassword_AsGiven(password) == password

\* AddUserCommand.execute lines 34-36: an empty password is replaced by a random one
EffectivePassword(password) == IF password = "" THEN random_password ELSE password

\* the user object execute holds: the one get_user found, with the display name
\* it has on the controller, or the one add_user created
ExistingUser == [username |-> GivenUser, display_name |-> "old-display-name"]
CreatedUser == [username |-> GivenUser, display_name |-> GivenDisplayName]

\* add_user called whether or not the user exists
NeedsAddUser_Always(found) == TRUE

\* AddUserCommand.execute line 39: if user is None
NeedsAddUser(found) == ~found

\* AddUserCommand.execute raises e
AddRaised(e) == [NoUout EXCEPT !.kind = "raise", !.error = e, !.from = "add_user"]

\* AddUserCommand.execute lines 34-52: the user is looked up, created if absent,
\* and with overwrite has the password reset.  found: get_user returns a user;
\* created: add_user works; reset: set_password works
AddPrepare(found, created, reset) ==
  /\ upc = "get_user"
  /\ LET looked == Append(ulog, CalledWith("get_user",
                                            <<GivenUser, IF found THEN "user" ELSE None>>,
                                            TRUE))
         password == EffectivePassword(uargs.password)
         added == IF ~NeedsAddUser(found) THEN looked
                  ELSE Append(looked, CalledWith("add_user",
                                                 <<GivenUser, password, GivenDisplayName>>,
                                                 created))
         done == IF uargs.overwrite
                 THEN Append(added, CalledWith("set_password", <<password>>, reset))
                 ELSE added
     IN IF NeedsAddUser(found) /\ ~created
        THEN /\ ulog' = added
             /\ upc' = "done"
             /\ uout' = AddRaised("JujuError")
        ELSE IF uargs.overwrite /\ ~reset
        THEN /\ ulog' = done
             /\ upc' = "done"
             /\ uout' = AddRaised("JujuError")
        ELSE /\ ulog' = done
             /\ upc' = "enable"
             /\ uout' = uout
  /\ UNCHANGED <<gpc, uargs, todo, gout, ucalls>>
  /\ UNCHANGED <<runnervars, cachevars, restvars>>

\* a failed sub-command returned whatever overwrite is
ShortCircuit_IgnoresOverwrite(success, overwrite) == ~success

\* AddUserCommand.execute lines 58 and 66:
\* if not <sub-command result>.success and not overwrite: return it
ShortCircuit(success, overwrite) == ~success /\ ~overwrite

\* the grant sub-command run whether or not an acl was given
WantsGrant_Always(acl) == TRUE

\* AddUserCommand.execute line 61: if kwargs.get("acl")
WantsGrant(acl) == acl /= None

\* EnableUserCommand.execute: controller.enable_user(username) works or raises
EnableExecute(ok) ==
  IF ok THEN [raised |-> FALSE, value |-> None] ELSE [raised |-> TRUE, value |-> "JujuError"]

\* AddUserCommand.execute lines 54-62: enable_cmd.run(...), then the short
\* circuit, then the grant sub-command if an acl was given
AddEnable(ok) ==
  /\ upc = "enable"
  /\ ulog' = Append(ulog, Called("enable_user", 0, None, ok))
  /\ LET enable_cmd_result == BaseRun(EnableExecute(ok))
     IN IF ShortCircuit(enable_cmd_result.success, uargs.overwrite)
        THEN /\ upc' = "done"
             /\ gpc' = gpc
             /\ uout' = [NoUout EXCEPT !.kind = "return", !.value = "Result",
                                       !.success = enable_cmd_result.success,
                                       !.error = enable_cmd_result.error,
                                       !.from = "enable"]
        ELSE IF WantsGrant(uargs.acl)
        THEN /\ upc' = "grant"
             /\ gpc' = "start"
             /\ uout' = uout
        ELSE /\ upc' = "return"
             /\ gpc' = gpc
             /\ uout' = uout
  /\ UNCHANGED <<uargs, todo, gout, ucalls>>
  /\ UNCHANGED <<runnervars, cachevars, restvars>>

\* AddUserCommand.execute lines 63-67: the Result of grant_cmd.run(...), then the
\* short circuit
AddAfterGrant ==
  /\ upc = "after_grant"
  /\ IF ShortCircuit(gout.success, uargs.overwrite)
     THEN /\ upc' = "done"
          /\ uout' = gout
     ELSE /\ upc' = "return"
          /\ uout' = uout
  /\ UNCHANGED <<gpc, uargs, todo, ulog, gout, ucalls>>
  /\ UNCHANGED <<runnervars, cachevars, restvars>>

\* AddUserCommand.execute lines 69-73: the user record is returned
AddReturn ==
  /\ upc = "return"
  /\ upc' = "done"
  /\ LET user == IF \E i \in DOMAIN ulog : ulog[i].op = "add_user"
                 THEN CreatedUser ELSE ExistingUser
     IN uout' = [NoUout EXCEPT
                   !.kind = "return", !.value = "user_record",
                   !.success = TRUE, !.from = "add_user",
                   !.record = UserRecord(user.username, user.display_name,
                                         EffectivePassword(uargs.password))]
  /\ UNCHANGED <<gpc, uargs, todo, ulog, gout, ucalls>>
  /\ UNCHANGED <<runnervars, cachevars, restvars>>

InitUsers ==
  /\ RunnerIdle
  /\ CacheIdle
  /\ UsersIdle
  /\ RestIdle

NextUsers ==
  \/ \E overwrite \in BOOLEAN, acl \in ACL_CHOICES : CallGrant(overwrite, acl)
  \/ \E ok \in BOOLEAN : GrantStart(ok)
  \/ \E ok \in BOOLEAN : GrantModel(ok)
  \/ GrantReturn
  \/ \E overwrite \in BOOLEAN, acl \in ACL_CHOICES \cup {None}, password \in Passwords :
       CallAddUser(overwrite, acl, password)
  \/ \E found \in BOOLEAN, created \in BOOLEAN, reset \in BOOLEAN :
       AddPrepare(found, created, reset)
  \/ \E ok \in BOOLEAN : AddEnable(ok)
  \/ AddAfterGrant
  \/ AddReturn

SpecUsers == InitUsers /\ [][NextUsers]_vars

\* =========================================================================
\* Helper functions of the commands and of the runner.  They keep no state: a
\* behaviour applies one of them once, to arguments drawn from small sets.
\* =========================================================================

\* the users a command is asked to act on, and the controller config's own user
UserNames == {"admin", "alice", "bob"}

\* the pre_check of the commands that have one
PreCheckCommands == {"add_user", "remove_user"}

\* msg of AddUserCommand.pre_check (add_user.py line 20) and of
\* RemoveUserCommand.pre_check (remove_user.py line 34)
SelfMessage(command) ==
  IF command = "add_user" THEN "User can't add self" ELSE "User can't remove self"

\* the failed Result without its error
SelfResult_NoError(command) == Result(FALSE, SelfMessage(command), None)

\* pre_check: Result(False, error=JujuSpellError(msg), output=msg)
SelfResult(command) == Result(FALSE, SelfMessage(command), "JujuSpellError")

\* every user let through
SelfTargeting_Never(user, config_user) == FALSE

\* pre_check: if kwargs["user"] == kwargs["controller_config"].user
SelfTargeting(user, config_user) == user = config_user

\* AddUserCommand.pre_check (add_user.py 18-26) and RemoveUserCommand.pre_check
\* (remove_user.py 32-40): nothing is awaited, nothing is called on controller
pre_check(command, user, config_user) ==
  [NoPreCheck EXCEPT
     !.command = command, !.user = user, !.config_user = config_user,
     !.returns = IF SelfTargeting(user, config_user) THEN "Result" ELSE "None",
     !.result = IF SelfTargeting(user, config_user) THEN SelfResult(command) ELSE @]

ApplyPreCheck(command, user, config_user) ==
  /\ applied = NoApplied
  /\ applied' = [NoApplied EXCEPT !.fn = "pre_check",
                                  !.pre_check = pre_check(command, user, config_user)]
  /\ UNCHANGED <<runnervars, cachevars, uservars, tasks, fcvars>>

\* the Results get_result is given: those of test_get_result (test_runner.py
\* 27-64) and those whose output holds a dataclass instance
OutputValues == {None, "test-string-value", UpdatesOutput, ResultOutput}
ErrorValues == {None, "Exception"}
ResultValues ==
  {Result(success, output, error) :
     success \in BOOLEAN, output \in OutputValues, error \in ErrorValues}

\* get_result(controller_config, output) (runner.py 25-34): both arguments are
\* only read
ApplyGetResult(i, output) ==
  /\ applied = NoApplied
  /\ applied' = [NoApplied EXCEPT
                   !.fn = "get_result",
                   !.get_result = [controller_config |-> <<Controllers[i]>>,
                                   config_after |-> <<Controllers[i]>>,
                                   output |-> output,
                                   output_after |-> output,
                                   record |-> <<get_result(Controllers[i], output)>>]]
  /\ UNCHANGED <<runnervars, cachevars, uservars, tasks, fcvars>>

\* ------------------------------------------------ UpdatePackages.parse_result
\* the number of lines of a text given to parse_result
MaxLines == 2

\* One word of a line, as line.split(" ") cuts it: the brackets and parentheses at
\* its two ends (open, close) and the text between them.  "[2.4.7]" is
\* Word("[", "2.4.7", "]"), "(2.4.8" is Word("(", "2.4.8", ""), two spaces in a row
\* leave the empty word Word("", "", "").
Word(open, text, close) == [open |-> open, text |-> text, close |-> close]
Plain(text) == Word("", text, "")

\* word.strip("()[]")
strip(word) == word.text

\* the lines of the texts, each as the list line.split(" ") gives
InstLine == <<Plain("Inst"), Plain("apt"), Word("[", "2.4.7", "]"),
              Word("(", "2.4.8", ""), Plain("Ubuntu:22.04"), Word("[", "amd64", "])")>>
UnpackingLine == <<Plain("Unpacking"), Plain("rsync"), Word("(", "3.2.3-8ubuntu3.1", ")"),
                   Plain("over"), Word("(", "3.2.3-8ubuntu3", ")"), Plain("...")>>
Lines ==
  {InstLine,
   UnpackingLine,
   \* a blank line, and lines of the other kinds apt-get prints
   <<Plain("")>>,
   <<Plain("Conf"), Plain("apt"), Word("(", "2.4.8", ""), Plain("Ubuntu:22.04")>>,
   <<Plain("Preparing"), Plain("to"), Plain("unpack"), Plain("...")>>,
   <<Plain("Installing"), Plain("apt"), Word("[", "2.4.7", "]"), Word("(", "2.4.8", ")")>>,
   \* Inst with nothing after it (no space follows)
   <<Plain("Inst")>>,
   \* truncated lines
   <<Plain("Inst"), Plain("apt")>>,
   <<Plain("Inst"), Plain("apt"), Word("[", "2.4.7", "]")>>,
   <<Plain("Unpacking")>>,
   <<Plain("Unpacking"), Plain("rsync"), Word("(", "3.2.3-8ubuntu3.1", ")"), Plain("over")>>,
   \* a package that was not installed before: no [v1], no "over (v1)"
   <<Plain("Inst"), Plain("apt-utils"), Word("(", "2.4.8", ""), Plain("Ubuntu:22.04"),
     Word("[", "amd64", "])")>>,
   <<Plain("Unpacking"), Plain("apt-utils"), Word("(", "2.4.8", ")"), Plain("...")>>,
   \* malformed lines
   <<Plain("Inst"), Plain(""), Plain("apt"), Word("[", "2.4.7", "]"), Word("(", "2.4.8", "")>>,
   <<Plain("Inst"), Plain("apt"), Word("[", "", "]"), Word("(", "2.4.8", "")>>,
   <<Plain("Unpacking"), Plain("rsync"), Word("(", "3.2.3-8ubuntu3.1", ")"),
     Plain("over"), Word("(", "", ")")>>,
   <<Plain("Inst"), Plain("apt"), Plain("2.4.7"), Plain("2.4.8")>>}

PackageUpdateResult(package, from_version, to_version) ==
  [package |-> package, from_version |-> from_version, to_version |-> to_version]

\* line.startswith("Inst "): the first word is Inst and a space follows it
StartsWithInst(line) == line[1] = Plain("Inst") /\ Len(line) >= 2

\* line.startswith("Unpacking")
StartsWithUnpacking(line) == line[1] = Plain("Unpacking")

\* the unpacking assignments _, name, ... , *others = line.split(" ") raise
\* ValueError when the line has fewer than n words
TooShort(line, n) == Len(line) < n

\* parse_result lines 137-155, one line: raised, or the package found, if any
ParseLine(line) ==
  LET inst == StartsWithInst(line)
      unpacking == ~inst /\ StartsWithUnpacking(line)
      raised == (inst /\ TooShort(line, 4)) \/ (unpacking /\ TooShort(line, 5))
      short == (inst /\ Len(line) < 4) \/ (unpacking /\ Len(line) < 5)
      name == IF short THEN "" ELSE IF inst \/ unpacking THEN line[2].text ELSE ""
      from_version == IF short THEN ""
                      ELSE IF inst THEN strip(line[3])
                      ELSE IF unpacking THEN strip(line[5]) ELSE ""
      to_version == IF short THEN ""
                    ELSE IF inst THEN strip(line[4])
                    ELSE IF unpacking THEN strip(line[3]) ELSE ""
  IN [raised |-> raised,
      found |-> ~raised /\ from_version /= "" /\ to_version /= "" /\ name /= "",
      package |-> PackageUpdateResult(name, from_version, to_version)]

\* UpdatePackages.parse_result (update_packages.py 128-157), on the lines of
\* result.splitlines()
RECURSIVE ParseLines(_, _)
ParseLines(lines, packages) ==
  IF lines = <<>> THEN [NoParseResult EXCEPT !.packages = packages]
  ELSE LET p == ParseLine(Head(lines))
       IN IF p.raised
          THEN [NoParseResult EXCEPT !.raised = TRUE, !.error = "ValueError"]
          ELSE ParseLines(Tail(lines),
                          IF p.found THEN Append(packages, p.package) ELSE packages)

parse_result(lines) == [ParseLines(lines, <<>>) EXCEPT !.lines = lines]

\* the texts of at most MaxLines lines
Texts == UNION {[1..n -> Lines] : n \in 0..MaxLines}

ApplyParseResult(lines) ==
  /\ applied = NoApplied
  /\ applied' = [NoApplied EXCEPT !.fn = "parse_result",
                                  !.parse_result = parse_result(lines)]
  /\ UNCHANGED <<runnervars, cachevars, uservars, tasks, fcvars>>

\* ------------------------------------------- UpdatePackages.set_success_flags
PackageToUpdate(package, version) == [package |-> package, version |-> version]

\* the packages and versions of the patch file and of the units' output
PackageNames == {"apt", "rsync"}
Versions == {"2.4.8", "3.2.3"}
ExpectedPackages == {PackageToUpdate(p, v) : p \in PackageNames, v \in Versions}
ParsedPackages == {PackageUpdateResult(p, "2.4.7", v) : p \in PackageNames, v \in Versions}

\* success as soon as one expected package was updated
set_success_flags_AnyMatch(packages, expected) ==
  LET expected_set == {<<e.version, e.package>> : e \in expected}
      real_set == {<<p.to_version, p.package>> : p \in packages}
  IN (expected_set \cap real_set) /= {}

\* UpdatePackages.set_success_flags (update_packages.py 187-195): the value given
\* to unit.success
set_success_flags(packages, expected) ==
  LET expected_set == {<<e.version, e.package>> : e \in expected}
      real_set == {<<p.to_version, p.package>> : p \in packages}
      res == expected_set \cap real_set
  IN res = expected_set

ApplySetSuccessFlags(packages, expected) ==
  /\ applied = NoApplied
  /\ applied' = [NoApplied EXCEPT
                   !.fn = "set_success_flags",
                   !.set_success_flags = [packages |-> packages, expected |-> expected,
                                          success |-> set_success_flags(packages, expected)]]
  /\ UNCHANGED <<runnervars, cachevars, uservars, tasks, fcvars>>

\* ------------------------------------------------ UpdatePackages.make_updates
\* UpdatePackages.make_updates (update_packages.py 89-108) with one unit to
\* update, whose command printed lines: run_updates_on_model parses them (123),
\* and the Result is built at 108 whatever the units' success flags are
make_updates(lines) ==
  IF parse_result(lines).raised
  THEN [NoMakeUpdates EXCEPT !.lines = lines, !.raised = TRUE,
                             !.error = parse_result(lines).error]
  ELSE [NoMakeUpdates EXCEPT !.lines = lines,
                             !.result = Result(TRUE, UpdatesOutput, None)]

ApplyMakeUpdates(lines) ==
  /\ applied = NoApplied
  /\ applied' = [NoApplied EXCEPT !.fn = "make_updates",
                                  !.make_updates = make_updates(lines)]
  /\ UNCHANGED <<runnervars, cachevars, uservars, tasks, fcvars>>

\* -------------------------------------------------- run_serial, one target
\* what the execute of the commands may do: return an output, return a Result
\* (UpdatePackages, AddUserCommand), or raise
Executions ==
  ExecuteOutcomes
  \cup {EnableExecute(ok) : ok \in BOOLEAN}
  \cup {GrantReturned, GrantRaised}
  \cup {[raised |-> FALSE, value |-> UpdatesOutput],
        [raised |-> FALSE, value |-> ResultOutput],
        [raised |-> TRUE, value |-> "ValueError"]}

\* BaseJujuCommand.run with the command's pre_check: an early Result of pre_check
\* is returned in the place of execute's
RunWithPreCheck(pre, ex) == IF pre.returns = "Result" THEN pre.result ELSE BaseRun(ex)

\* run_serial lines 66-68: output = await command.run(...);
\* result = get_result(controller_config, output)
ApplyRun(i, command, user, config_user, ex) ==
  /\ applied = NoApplied
  /\ LET output == RunWithPreCheck(pre_check(command, user, config_user), ex)
     IN applied' = [NoApplied EXCEPT
                      !.fn = "run",
                      !.run = [command |-> command, result |-> output,
                               record |-> <<get_result(Controllers[i], output)>>]]
  /\ UNCHANGED <<runnervars, cachevars, uservars, tasks, fcvars>>

\* ------------------------------------------------------- the resource filter
\* get_filtered_models(controller, models, model_mappings) as grant.py 74-78 and
\* update_packages.py 98-102 call it; its body is in juju_spell/commands/base.py

\* the models a connection may know, in the order it lists them
AllModels == <<"foo-a", "foo-b", "bar">>
KnownModels ==
  {SelectSeq(AllModels, LAMBDA m : m \in chosen) : chosen \in SUBSET {"foo-a", "foo-b", "bar"}}

\* the patterns of a mapping, and the names each matches
Patterns == {"foo.*", "bar"}
Matches(pattern, name) ==
  IF pattern = "foo.*" THEN name \in {"foo-a", "foo-b"} ELSE name = "bar"

\* what a mapping gives a label: a null pattern, or a list of patterns (as a set)
NullPattern == [null |-> TRUE, patterns |-> {}]
PatternList(patterns) == [null |-> FALSE, patterns |-> patterns]
Selectors == {NullPattern} \cup {PatternList(ps) : ps \in SUBSET Patterns}

\* a mapping: its labels in order, each with what it selects
Label(label, selector) == [label |-> label, selector |-> selector]
Mappings ==
  {<<Label("lma", s)>> : s \in Selectors}
  \cup {<<Label("lma", s), Label("default", t)>> : s \in Selectors, t \in Selectors}

\* a null pattern matches every model, a list those matching one of its patterns
Selected(selector, name) ==
  selector.null \/ \E pattern \in selector.patterns : Matches(pattern, name)

\* a model yielded once for every label that selects it
Fresh_Always(yielded, name) == TRUE

\* de-duplication by resource identity
Fresh(yielded, name) == \A k \in DOMAIN yielded : yielded[k].model /= name

\* the pairs of one label, after those already yielded
RECURSIVE ExpandLabel(_, _, _)
ExpandLabel(entry, models, yielded) ==
  IF models = <<>> THEN yielded
  ELSE ExpandLabel(entry, Tail(models),
                   IF Selected(entry.selector, Head(models)) /\ Fresh(yielded, Head(models))
                   THEN Append(yielded, [label |-> entry.label, model |-> Head(models)])
                   ELSE yielded)

\* the pairs of a mapping, label after label
RECURSIVE Expand(_, _, _)
Expand(mapping, models, yielded) ==
  IF mapping = <<>> THEN yielded
  ELSE Expand(Tail(mapping), models, ExpandLabel(Head(mapping), models, yielded))

filtered_models(models, mapping) == Expand(mapping, models, <<>>)

ApplyFilter(models, mapping) ==
  /\ applied = NoApplied
  /\ applied' = [NoApplied EXCEPT
                   !.fn = "filter",
                   !.filter = [models |-> models, mapping |-> mapping,
                               pairs |-> filtered_models(models, mapping)]]
  /\ UNCHANGED <<runnervars, cachevars, uservars, tasks, fcvars>>

\* ------------------------------------- get_free_tcp_port, port by port
\* the ports a range can be drawn from
MaxPorts == 2
Ports == 17071..(17070 + MaxPorts)

\* the ranges of consecutive ports, the empty range among them
PortRanges == {lo..hi : lo \in Ports, hi \in Ports \cup {17070}}

\* random.shuffle(list(port_range)): the orders the ports can come in
Shuffles(range) ==
  {list \in [1..Cardinality(range) -> range] :
     \A a, b \in 1..Cardinality(range) : list[a] = list[b] => a = b}

\* every port reported free
is_port_free_Always(port, free) == TRUE

\* _is_port_free: nothing answers on the port (free: the ports nothing listens on)
is_port_free(port, free) == port \in free

\* the loop of get_free_tcp_port over the shuffled ports left, after the probes
\* done so far: the first free port is returned, ValueError when none is left
RECURSIVE ProbePorts(_, _, _)
ProbePorts(list_of_ports, free, probes) ==
  IF list_of_ports = <<>>
  THEN [probes |-> probes, port |-> 0, raised |-> "ValueError"]
  ELSE LET port == Head(list_of_ports)
       IN IF is_port_free(port, free)
          THEN [probes |-> Append(probes, port), port |-> port, raised |-> None]
          ELSE ProbePorts(Tail(list_of_ports), free, Append(probes, port))

\* _connect of target i on an empty registry, with the shuffle and the free
\* ports given: ok is whether controller.connect succeeds
ConnectOnce(i, sshuttle, list_of_ports, free, ok) ==
  LET cfg == Controllers[i]
      forwarded == cfg.connection /\ ~sshuttle
      probe == IF forwarded
               THEN ProbePorts(list_of_ports, free, <<>>)
               ELSE [probes |-> <<>>, port |-> 0, raised |-> None]
      started == [NoConnectOnce EXCEPT !.target = i, !.sshuttle = sshuttle,
                                   !.list_of_ports = list_of_ports, !.free = free,
                                   !.probes = probe.probes]
  IN IF probe.raised /= None
     THEN [started EXCEPT !.raised = probe.raised]
     ELSE [started EXCEPT
             !.port = probe.port,
             !.spawned = IF forwarded THEN <<[kind |-> "ssh", port |-> probe.port]>>
                         ELSE IF cfg.connection THEN <<[kind |-> "sshuttle", port |-> 0]>>
                         ELSE <<>>,
             !.endpoint = DialEndpoint(cfg, probe.port),
             !.raised = IF ok THEN None ELSE "ConnectError",
             !.registered = ok]

ApplyConnect(i, sshuttle, list_of_ports, free, ok) ==
  /\ applied = NoApplied
  /\ applied' = [NoApplied EXCEPT
                   !.fn = "connect",
                   !.connect = ConnectOnce(i, sshuttle, list_of_ports, free, ok)]
  /\ UNCHANGED <<runnervars, cachevars, uservars, tasks, fcvars>>

\* ------------------------------------------- RemoveUserCommand.execute
\* the user is disabled before anything is revoked
RemoveSteps_DisableFirst(models) ==
  <<[op |-> "disable_user", model |-> "", acl |-> None]>>
  \o [k \in 1..Len(models) |-> [op |-> "revoke_model", model |-> models[k], acl |-> "read"]]
  \o <<[op |-> "revoke", model |-> "", acl |-> "login"]>>

\* the sub-commands execute runs, in order: RevokeModelCommand with acl read for
\* every filtered model (lines 51-58), RevokeCommand with acl login (71-72),
\* DisableUserCommand (83-84)
RemoveSteps(models) ==
  [k \in 1..Len(models) |-> [op |-> "revoke_model", model |-> models[k], acl |-> "read"]]
  \o <<[op |-> "revoke", model |-> "", acl |-> "login"],
       [op |-> "disable_user", model |-> "", acl |-> None]>>

\* execute on the filtered models, the steps of failing (by position) raising
\* inside their sub-command: run hands back a failed Result, which is logged as a
\* warning (lines 59-67, 73-80, 85-92), and execute returns True (line 95)
remove_user(models, failing) ==
  LET steps == RemoveSteps(models)
      result(k) == BaseRun(IF k \in failing
                           THEN [raised |-> TRUE, value |-> "JujuError"]
                           ELSE [raised |-> FALSE, value |-> "output"])
      calls == [k \in DOMAIN steps |->
                  [op |-> steps[k].op, model |-> steps[k].model, acl |-> steps[k].acl,
                   success |-> result(k).success]]
      failed(c) == ~c.success
  IN [NoRemoveUser EXCEPT !.models = models, !.failing = failing, !.calls = calls,
                          !.warnings = SelectSeq(calls, failed), !.returned = "True"]

ApplyRemoveUser(models, failing) ==
  /\ applied = NoApplied
  /\ applied' = [NoApplied EXCEPT !.fn = "remove_user",
                                  !.remove_user = remove_user(models, failing)]
  /\ UNCHANGED <<runnervars, cachevars, uservars, tasks, fcvars>>

\* ----------------------------------- UpdatePackages over several models
\* the unit commands of a behaviour that may raise: the one at position FailAt
MaxFailAt == 2

\* update_packages.py lines 31-43 and 52-57 (packages_to_update left out)
UnitUpdateResult(unit, command) == [unit |-> unit, command |-> command, done |-> FALSE]
UpdateResult(application, units) == [application |-> application, units |-> units]
Application(name_expr, dist_upgrade) ==
  [name_expr |-> name_expr, dist_upgrade |-> dist_upgrade, results |-> <<>>]

\* the update specifications a caller hands in (kwargs["patch"])
UpdateSpecs ==
  {<<Application("^.*ubuntu.*$", TRUE)>>,
   <<Application(".*", FALSE), Application("^.*ubuntu.*$", TRUE)>>}

\* model.applications of the models of the controller: application and units;
\* unit names repeat from model to model
JujuApplications(model) ==
  IF model = "foo-a"
  THEN <<[app |-> "ubuntu", units |-> <<"ubuntu/0", "ubuntu/1">>],
         [app |-> "nrpe", units |-> <<"nrpe/0">>]>>
  ELSE IF model = "foo-b"
  THEN <<[app |-> "ubuntu", units |-> <<"ubuntu/0">>]>>
  ELSE <<[app |-> "mysql", units |-> <<"mysql/0">>]>>

\* re.match(update.name_expr, app), line 178
ReMatch(name_expr, app) == name_expr = ".*" \/ app = "ubuntu"

\* get_update_command, lines 159-167
get_update_command(app, dry_run) ==
  [install |-> IF app.dist_upgrade THEN "dist-upgrade" ELSE "install", dry_run |-> dry_run]

\* the pairs get_filtered_models yields for the models of the controller
UpdatePairs ==
  {filtered_models(models, mapping) :
     models \in KnownModels,
     mapping \in {<<Label("lma", NullPattern)>>,
                  <<Label("lma", PatternList({"foo.*"})), Label("default", NullPattern)>>}}

RECURSIVE Concat(_)
Concat(seqs) == IF seqs = <<>> THEN <<>> ELSE Head(seqs) \o Concat(Tail(seqs))

\* set_apps_to_update, lines 169-185: every application of the specification gets
\* an UpdateResult appended for every application of the model it matches
set_apps_to_update(model, updates, dry_run) ==
  [k \in DOMAIN updates |->
     LET update == updates[k]
         command == get_update_command(update, dry_run)
         matches(a) == ReMatch(update.name_expr, a.app)
         matching == SelectSeq(JujuApplications(model), matches)
     IN [update EXCEPT !.results = @ \o
           [m \in DOMAIN matching |->
              UpdateResult(matching[m].app,
                           [u \in DOMAIN matching[m].units |->
                              UnitUpdateResult(matching[m].units[u], command)])]]]

\* run_updates_on_model, lines 115-120: the juju_unit.run calls on the model, in
\* order
Invocations(model, updates) ==
  Concat([k \in DOMAIN updates |->
            Concat([r \in DOMAIN updates[k].results |->
                      [u \in DOMAIN updates[k].results[r].units |->
                         [model |-> model, entry |-> k,
                          application |-> updates[k].results[r].application,
                          unit |-> updates[k].results[r].units[u].unit,
                          command |-> updates[k].results[r].units[u].command]]])])

\* run_updates_on_model, lines 121-126: every unit has its output parsed and stored
Ran(updates) ==
  [k \in DOMAIN updates |->
     [updates[k] EXCEPT !.results =
        [r \in DOMAIN @ |-> [@[r] EXCEPT !.units =
           [u \in DOMAIN @ |-> [@[u] EXCEPT !.done = TRUE]]]]]]

\* the specification of the caller handed on as it is: one object for every model
deepcopy_SameObject(updates) == [fresh |-> FALSE, value |-> updates]

\* copy.deepcopy(updates), line 103: a new object with the same content
deepcopy(updates) == [fresh |-> TRUE, value |-> updates]

\* output[name] = model_result, line 107
PutOutput(output, name, model, model_result) ==
  LET item == [name |-> name, model |-> model, result |-> model_result]
  IN IF \E k \in DOMAIN output : output[k].name = name
     THEN [k \in DOMAIN output |-> IF output[k].name = name THEN item ELSE output[k]]
     ELSE Append(output, item)

\* make_updates, lines 97-108, over the pairs left; acc.updates_after is the
\* caller's specification as it is by now, FailAt the position of the unit
\* command that raises (0: none)
RECURSIVE MakeUpdates(_, _, _, _)
MakeUpdates(pairs, acc, FailAt, dry_run) ==
  IF pairs = <<>> THEN acc
  ELSE LET model == Head(pairs).model
           copied == deepcopy(acc.updates_after)
           model_result == set_apps_to_update(model, copied.value, dry_run)
           planned == Invocations(model, model_result)
           before == Len(acc.calls)
           fails == FailAt \in (before + 1)..(before + Len(planned))
       IN IF fails
          THEN [acc EXCEPT !.calls = @ \o SubSeq(planned, 1, FailAt - before),
                           !.raised = TRUE,
                           !.updates_after = IF copied.fresh THEN @ ELSE model_result]
          ELSE MakeUpdates(Tail(pairs),
                           [acc EXCEPT !.calls = @ \o planned,
                                       !.output = PutOutput(@, Head(pairs).label, model,
                                                            Ran(model_result)),
                                       !.updates_after = IF copied.fresh THEN @
                                                         ELSE Ran(model_result)],
                           FailAt, dry_run)

ApplyUpdates(pairs, updates, FailAt, dry_run) ==
  /\ applied = NoApplied
  /\ applied' = [NoApplied EXCEPT
                   !.fn = "updates",
                   !.updates = MakeUpdates(pairs,
                                           [NoUpdates EXCEPT !.pairs = pairs,
                                                             !.updates = updates,
                                                             !.updates_after = updates],
                                           FailAt, dry_run)]
  /\ UNCHANGED <<runnervars, cachevars, uservars, tasks, fcvars>>

InitFunctions ==
  /\ RunnerIdle
  /\ CacheIdle
  /\ UsersIdle
  /\ RestIdle

NextFunctions ==
  \/ \E command \in PreCheckCommands, user \in UserNames, config_user \in UserNames :
       ApplyPreCheck(command, user, config_user)
  \/ \E i \in 1..NumControllers, output \in ResultValues : ApplyGetResult(i, output)
  \/ \E lines \in Texts : ApplyParseResult(lines)
  \/ \E packages \in SUBSET ParsedPackages, expected \in SUBSET ExpectedPackages :
       ApplySetSuccessFlags(packages, expected)
  \/ \E lines \in Texts : ApplyMakeUpdates(lines)
  \/ \E models \in KnownModels, mapping \in Mappings : ApplyFilter(models, mapping)
  \/ \E i \in 1..NumControllers, command \in PreCheckCommands, user \in UserNames,
        config_user \in UserNames, ex \in Executions :
       ApplyRun(i, command, user, config_user, ex)
  \/ \E i \in 1..NumControllers, sshuttle \in BOOLEAN, range \in PortRanges,
        free \in SUBSET Ports, ok \in BOOLEAN :
       \E list_of_ports \in Shuffles(range) :
         ApplyConnect(i, sshuttle, list_of_ports, free, ok)
  \/ \E models \in KnownModels :
       \E failing \in SUBSET (1..(Len(models) + 2)) : ApplyRemoveUser(models, failing)
  \/ \E pairs \in UpdatePairs, updates \in UpdateSpecs, FailAt \in 0..MaxFailAt,
        dry_run \in BOOLEAN :
       ApplyUpdates(pairs, updates, FailAt, dry_run)

SpecFunctions == InitFunctions /\ [][NextFunctions]_vars

\* ------------------------------- get_controller from concurrent tasks
\* The tasks run on one event loop: the code between two awaits of a task is one
\* step, and at an await any other task may run.  The class has no lock, so
\* nothing else orders the tasks.
serialvars == <<call, ncalls, outcome, mpc, gc, cleanKeys, rpc, phase, idx, controller,
                results, parsed_args, pending, cmdCalls, cleanCalls, preCheckCalls,
                dispatches, cleanStart, attempted, gcPath>>

\* _connect up to its await (lines 174-193) in task t, on the handles hs
TaskConnectBegin(t, f, hs, port) ==
  LET cfg == Controllers[f.target]
      h == NewId(hs)
      p == NewId(procs)
      created == New(hs, [target |-> f.target, connected |-> FALSE,
                          endpoint |-> <<"none", 0>>])
  IN /\ handles' = created
     /\ connections' = connections
     /\ IF cfg.connection /\ ~f.sshuttle
        THEN IF port = 0
             THEN /\ procs' = procs
                  /\ tasks' = [tasks EXCEPT ![t] = [f EXCEPT !.pc = "done", !.controller = h,
                                                             !.raised = "ValueError"]]
             ELSE /\ procs' = New(procs, [target |-> f.target, kind |-> "ssh",
                                          port |-> port, running |-> TRUE])
                  /\ tasks' = [tasks EXCEPT ![t] = [f EXCEPT !.pc = "dial", !.controller = h,
                                                             !.connection_process = p,
                                                             !.local_endpoint = port]]
        ELSE IF cfg.connection /\ f.sshuttle
        THEN /\ procs' = New(procs, [target |-> f.target, kind |-> "sshuttle",
                                     port |-> 0, running |-> TRUE])
             /\ tasks' = [tasks EXCEPT ![t] = [f EXCEPT !.pc = "dial", !.controller = h,
                                                        !.connection_process = p]]
        ELSE /\ procs' = procs
             /\ tasks' = [tasks EXCEPT ![t] = [f EXCEPT !.pc = "dial", !.controller = h]]

\* task t calls get_controller: lines 229-242 up to the first await
TaskGetController(t, i, sshuttle, reconnect, port) ==
  /\ tasks[t].pc = "idle"
  /\ LET connection == Get(connections, Controllers[i].name)
         f == [IdleTask EXCEPT !.target = i, !.sshuttle = sshuttle,
                               !.reconnect = reconnect, !.old = connection.controller]
     IN IF CacheHit(connection, reconnect)
        THEN /\ tasks' = [tasks EXCEPT ![t] = [f EXCEPT !.pc = "done", !.path = "cache",
                                                        !.returned = connection.controller]]
             /\ UNCHANGED mgr
        ELSE IF NeedsDisconnect(connection, reconnect)
        THEN /\ tasks' = [tasks EXCEPT ![t] = [f EXCEPT !.pc = "disconnect",
                                                        !.path = "reconnect"]]
             /\ UNCHANGED mgr
        ELSE TaskConnectBegin(t, [f EXCEPT !.path = "connect"], handles, port)
  /\ UNCHANGED serialvars
  /\ UNCHANGED <<cachevars, uservars, applied, fcvars>>

\* line 240 in task t: the disconnect of the old controller ends, then _connect
\* up to its await
TaskDisconnect(t, ok, port) ==
  /\ tasks[t].pc = "disconnect"
  /\ IF ok
     THEN TaskConnectBegin(t, tasks[t],
                           [handles EXCEPT ![tasks[t].old].connected = FALSE], port)
     ELSE /\ tasks' = [tasks EXCEPT ![t].pc = "done", ![t].raised = "DisconnectError"]
          /\ UNCHANGED mgr
  /\ UNCHANGED serialvars
  /\ UNCHANGED <<cachevars, uservars, applied, fcvars>>

\* lines 194-204 in task t: controller.connect ends, then the Connection is
\* written to the registry
TaskDial(t, ok) ==
  /\ tasks[t].pc = "dial"
  /\ LET f == tasks[t]
         cfg == Controllers[f.target]
         h == f.controller
         dialled == [handles EXCEPT ![h].endpoint = DialEndpoint(cfg, f.local_endpoint)]
     IN IF ok
        THEN /\ handles' = [dialled EXCEPT ![h].connected = TRUE]
             /\ connections' = SetItem(connections, cfg.name,
                                       Connection(cfg.name, h, f.connection_process))
             /\ tasks' = [tasks EXCEPT ![t].pc = "done", ![t].returned = h]
        ELSE /\ handles' = dialled
             /\ connections' = connections
             /\ tasks' = [tasks EXCEPT ![t].pc = "done", ![t].raised = "ConnectError"]
  /\ procs' = procs
  /\ UNCHANGED serialvars
  /\ UNCHANGED <<cachevars, uservars, applied, fcvars>>

InitTasks ==
  /\ RunnerIdle
  /\ CacheIdle
  /\ UsersIdle
  /\ RestIdle

NextTasks ==
  \/ \E t \in 1..NumTasks, i \in 1..NumControllers, sshuttle \in BOOLEAN,
        reconnect \in BOOLEAN, free \in SUBSET port_range :
       \E port \in get_free_tcp_port(port_range, free) :
         TaskGetController(t, i, sshuttle, reconnect, port)
  \/ \E t \in 1..NumTasks, ok \in BOOLEAN, free \in SUBSET port_range :
       \E port \in get_free_tcp_port(port_range, free) : TaskDisconnect(t, ok, port)
  \/ \E t \in 1..NumTasks, ok \in BOOLEAN : TaskDial(t, ok)

SpecTasks == InitTasks /\ [][NextTasks]_vars

\* ---------------------------------------------- FileCache over several keys
\* the connect and commit calls of a behaviour
MaxFcOps == 3

MissingName == "JujuSpellError: missing 'name' for file cache"

\* the uuid and the name of target i, as the juju controller reports them
TargetUuid(i) == <<"uuid-1", "uuid-2", "uuid-3", "uuid-4">>[i]
TargetName(i) == <<"name-1", "name-2", "name-3", "name-4">>[i]

\* save_cache_data, lines 47-51: the entry made for target i at time t; data holds
\* a list of model names and a bool, which yaml.safe_dump and safe_load give back
\* as they were
NewEntry(i, refresh, t) ==
  FileCacheContext(TargetUuid(i), TargetName(i),
                   Data("live", refresh, {"models", "refresh"}), t)

\* FileCache.commit, lines 133-139: the key of the file commit opens, NoKey when
\* it raises the missing-name error.  own_name is self.cache_name: the attribute
\* of the instance if commit set it before, the attribute of the class otherwise
CommitTarget(own_name, name) ==
  IF own_name = NoKey /\ name = NoKey THEN NoKey
  ELSE IF name /= NoKey THEN name
  ELSE own_name

\* what happens to the commits here: the write completes, or fails after two keys
FcEnvs == {env \in CommitEnvs : env.step = "write" /\ env.k \in {2, Len(ContextKeys)}}

\* FileCache.connect(backend), lines 150-166: line 153 assigns the path to the
\* class attribute before the file is opened
FcConnect(key) ==
  /\ Len(fclog) < MaxFcOps
  /\ LET got == connect(cache_files[key], "ok")
     IN /\ cache_name' = key
        /\ cache_files' = cache_files
        /\ fclog' = Append(fclog, [op |-> "connect", key |-> key, kind |->
                                     IF got.raised THEN "raise" ELSE "return",
                                   error |-> got.error, entry |-> got.entry,
                                   written |-> {}])
  /\ UNCHANGED <<runnervars, cachevars, uservars, applied, tasks>>

\* FileCache(uuid=..., ...).commit(name) of a newly created entry of target i:
\* the instance has no cache_name of its own, so self.cache_name reads the class
\* attribute
FcCommitNew(i, refresh, t, name, env) ==
  /\ Len(fclog) < MaxFcOps
  /\ LET fc == NewEntry(i, refresh, t)
         key == CommitTarget(cache_name, name)
     IN IF key = NoKey
        THEN /\ cache_files' = cache_files
             /\ fclog' = Append(fclog, [op |-> "commit", key |-> name, kind |-> "raise",
                                        error |-> MissingName, entry |-> fc,
                                        written |-> {}])
        ELSE /\ CanHappen(env, "exists", cache_files[key])
             /\ LET done == commit(fc, "exists", cache_files[key], env)
                IN /\ cache_files' = [cache_files EXCEPT ![key] = done.file]
                   /\ fclog' = Append(fclog, [op |-> "commit", key |-> name,
                                              kind |-> done.kind, error |-> done.error,
                                              entry |-> fc,
                                              written |-> {k \in CacheKeys :
                                                 (k = key) /\ done.file /= cache_files[key]}])
  /\ cache_name' = cache_name
  /\ UNCHANGED <<runnervars, cachevars, uservars, applied, tasks>>

InitFileCache ==
  /\ RunnerIdle
  /\ CacheIdle
  /\ UsersIdle
  /\ RestIdle

NextFileCache ==
  \/ \E key \in CacheKeys : FcConnect(key)
  \/ \E i \in 1..NumControllers, refresh \in BOOLEAN, env \in FcEnvs :
       \E name \in {Key(i), NoKey} :
         FcCommitNew(i, refresh, Len(fclog) + 1, name, env)

SpecFileCache == InitFileCache /\ [][NextFileCache]_vars

\* ------------------------------------------------------------------ claims
TypeOK ==
  /\ call \in {"idle", "get_controller", "clean", "run"}
  /\ mpc \in {"none", "begin", "disconnect", "dial", "clean_begin", "clean"}
  /\ rpc \in {"none", "start", "dispatch", "loop", "connect", "command", "finally",
              "cleaning", "done"}
  /\ phase \in {"none", "pre_check", "main"}
  /\ ncalls \in 0..MaxCalls
  /\ \A h \in DOMAIN handles : handles[h].connected \in BOOLEAN
  /\ \A p \in DOMAIN procs : procs[p].running \in BOOLEAN

\* a run is over: it returned or it propagated an exception
RunOver == outcome.of = "run"

ContextOf(i) == [uuid |-> Controllers[i].uuid, name |-> Controllers[i].name,
                 customer |-> Controllers[i].customer]

\* the command.run invocations of the pass (ping or command) of the current run
CallsOf(command) ==
  LET is(c) == c.command = command IN SelectSeq(cmdCalls, is)

\* C1: for every call of run, however it ends (main results returned, pre-check
\* results returned early, exception propagated), clean() is triggered exactly once:
\* not before the try block is left (so after the last command invocation), and
\* before run returns or propagates.
C1_CleanExactlyOnce ==
  /\ (call = "run" /\ rpc \in {"start", "dispatch", "loop", "connect", "command",
                               "finally"}) => cleanCalls = 0
  /\ (call = "run" /\ rpc = "cleaning") =>
        cleanCalls = (IF mpc = "clean_begin" THEN 0 ELSE 1)
  /\ RunOver => cleanCalls = 1

\* a run that invoked the command and then propagated an exception of the try block
C1_Witness ==
  /\ RunOver
  /\ outcome.kind = "raise"
  /\ outcome.error = "ConnectError"
  /\ cmdCalls /= <<>>
  /\ cleanCalls = 1

\* C2: a serial run over N controllers returns exactly N records; the i-th has the
\* context (uuid, name, customer) of the i-th controller of the config and the
\* success, output and error of the Result the command returned for that controller.
SerialRecords(rs) ==
  /\ Len(rs) = NumControllers
  /\ Len(cmdCalls) >= NumControllers
  /\ \A i \in 1..NumControllers :
       LET c == cmdCalls[Len(cmdCalls) - NumControllers + i]
       IN /\ rs[i].context = ContextOf(i)
          /\ c.target = i
          /\ rs[i].success = c.output.success
          /\ rs[i].output = c.output.output
          /\ rs[i].error = c.output.error

PingUnreachable ==
  \E k \in DOMAIN cmdCalls :
    /\ cmdCalls[k].command = "ping"
    /\ cmdCalls[k].output.output = PING_UNREACHABLE

PreCheckResults ==
  LET pings == CallsOf("ping")
  IN [k \in DOMAIN pings |->
        [context |-> ContextOf(pings[k].target),
         success |-> pings[k].output.success,
         output |-> pings[k].output.output,
         error |-> pings[k].output.error]]

C3_UnreachableStopsRun ==
  (call = "run" \/ RunOver) /\ parsed_args.pre_check /\ PingUnreachable =>
    /\ CallsOf("command") = <<>>
    /\ \A k \in DOMAIN dispatches : dispatches[k].command = "ping"
    /\ (RunOver /\ outcome.kind = "return") =>
         /\ outcome.results = PreCheckResults
         /\ Len(outcome.results) = NumControllers

\* a run returned the pre-check list, one target unreachable and one accessible
C3_Witness ==
  /\ RunOver
  /\ outcome.kind = "return"
  /\ parsed_args.pre_check
  /\ \E i, j \in DOMAIN outcome.results :
       /\ outcome.results[i].output = PING_UNREACHABLE
       /\ outcome.results[j].output = PING_ACCESSIBLE

\* C4: pre_check is invoked exactly once when parsed_args.pre_check is set and
\* never when it is unset; it hands the ping command to the strategy run_type
\* names; and when it finds every target reachable (or is not enabled) the main
\* command is handed to the strategy run_type names, with the caller's arguments.
StrategyNamed(run_type) ==
  CASE run_type = "serial" -> "run_serial"
    [] run_type = "batch" -> "run_batch"
    [] run_type = "parallel" -> "run_parallel"

PreCheckPassed ==
  /\ Len(CallsOf("ping")) = NumControllers
  /\ ~PingUnreachable

C4_PreCheckAndDispatch ==
  /\ (call = "run" /\ rpc /= "start") \/ RunOver =>
       preCheckCalls = (IF parsed_args.pre_check THEN 1 ELSE 0)
  /\ \A k \in DOMAIN dispatches :
       /\ dispatches[k].fn = StrategyNamed(parsed_args.run_type)
       /\ dispatches[k].parsed_args.run_type = parsed_args.run_type
       /\ dispatches[k].parsed_args.pre_check = parsed_args.pre_check
       /\ dispatches[k].command = (IF k = 1 /\ parsed_args.pre_check THEN "ping"
                                                                     ELSE "command")
  /\ Len(dispatches) <= (IF parsed_args.pre_check THEN 2 ELSE 1)
  /\ RunOver /\ (~parsed_args.pre_check \/ PreCheckPassed) =>
       /\ dispatches /= <<>>
       /\ dispatches[Len(dispatches)].command = "command"

\* a batch run with pre_check: the ping command went to run_batch
C4_Witness ==
  /\ RunOver
  /\ parsed_args.pre_check
  /\ parsed_args.run_type = "batch"
  /\ preCheckCalls = 1
  /\ Len(dispatches) = 1
  /\ dispatches[1].fn = "run_batch"

\* C5: get_controller for a target whose registry entry exists and whose handle is
\* connected, reconnect not forced, returns that very handle, creates no controller
\* object, spawns no subprocess, dials nothing and leaves the registry unchanged.
C5_CacheHitFrame ==
  [][ LET connection == Get(connections, Controllers[gc.target].name)
      IN (/\ mpc = "begin"
          /\ mpc' /= "begin"
          /\ connection /= NoConnection
          /\ handles[connection.controller].connected
          /\ ~gc.reconnect)
         => /\ mpc' = "none"
            /\ handles' = handles
            /\ procs' = procs
            /\ connections' = connections
            /\ IF call = "run"
               THEN rpc' = "command" /\ controller' = connection.controller
               ELSE /\ outcome'.kind = "return"
                    /\ outcome'.handle = connection.controller ]_vars

\* a second get_controller for a tunnelled target returned the cached handle
C5_Witness ==
  /\ gcPath = "cache"
  /\ outcome.of = "get_controller"
  /\ outcome.kind = "return"
  /\ Get(connections, Controllers[1].name).controller = outcome.handle
  /\ Get(connections, Controllers[1].name).connection_process /= 0
  /\ Cardinality(DOMAIN procs) = 1

\* a forced reconnect of a registered target is at its dial
ReconnectDialling == mpc = "dial" /\ gc.reconnect /\ gc.old /= 0

\* a top-level get_controller with forced reconnect of a registered target returned
ReconnectReturned ==
  /\ outcome.of = "get_controller"
  /\ outcome.kind = "return"
  /\ gcPath = "reconnect"

\* the handle the registry holds for the target of the latest get_controller
Registered == Get(connections, Controllers[gc.target].name).controller

\* C6: on a forced reconnect of a registered target, the old handle is
\* disconnected and the entry is dropped from the registry before the new connection
\* is established; on success the entry of the target holds the new handle.
C6_Original ==
  /\ ReconnectDialling =>
       /\ ~handles[gc.old].connected
       /\ Controllers[gc.target].name \notin Names(connections)
  /\ ReconnectReturned =>
       /\ outcome.handle = gc.controller
       /\ gc.controller /= gc.old
       /\ Registered = gc.controller

\* What get_controller does on a forced reconnect of a registered target: the old
\* handle is disconnected before the new connection is established, the cached
\* entry stays in the registry, still holding the old handle, until the new
\* connection is registered in its place, and on success the entry of the target
\* holds the new handle.
C6_ReconnectReplacesEntry ==
  /\ ReconnectDialling =>
       /\ ~handles[gc.old].connected
       /\ Registered = gc.old
  /\ ReconnectReturned =>
       /\ outcome.handle = gc.controller
       /\ gc.controller /= gc.old
       /\ Registered = gc.controller
       /\ handles[gc.controller].connected

\* a forced reconnect of a registered target succeeded
C6_Witness ==
  /\ ReconnectReturned
  /\ gc.old /= 0
  /\ Registered = gc.controller

\* C7: after any sequence of get_controller and clean calls, every connected handle
\* is the one the registry holds under its target's name, the registry holds one
\* entry per name, so each target has at most one live connection.
C7_OneLiveConnectionPerTarget ==
  /\ \A h \in DOMAIN handles :
       handles[h].connected =>
         Get(connections, Controllers[handles[h].target].name).controller = h
  /\ \A j, k \in DOMAIN connections :
       connections[j].name = connections[k].name => j = k
  /\ \A h1, h2 \in DOMAIN handles :
       (/\ handles[h1].connected
        /\ handles[h2].connected
        /\ handles[h1].target = handles[h2].target) => h1 = h2

\* a stale entry (its connection lost) was replaced by a new connection
C7_Witness ==
  /\ outcome.of = "get_controller"
  /\ outcome.kind = "return"
  /\ gcPath = "connect"
  /\ gc.old /= 0
  /\ ~handles[gc.old].connected
  /\ handles[gc.controller].connected
  /\ Registered = gc.controller

\* C8: every running tunnel subprocess the manager spawned is owned by a Connection
\* of the registry (or by the connection being established, until it is registered
\* or fails), and once clean() has completed no such subprocess is running.
Owned(p) ==
  \/ \E k \in DOMAIN connections : connections[k].connection_process = p
  \/ mpc = "dial" /\ gc.connection_process = p

CleanCompleted ==
  \/ outcome.of = "clean" /\ outcome.kind = "return"
  \/ RunOver /\ outcome.error /= "DisconnectError"

C8_TunnelOwned ==
  /\ \A p \in DOMAIN procs : procs[p].running => Owned(p)
  /\ CleanCompleted => \A p \in DOMAIN procs : ~procs[p].running

\* C9: clean() attempts every entry registered when it starts, even if closing one
\* fails: once clean() is over, each of them had disconnect attempted, its tunnel
\* subprocess (if any) terminated and its entry removed.
CleanOver == outcome.of = "clean" \/ RunOver

C9_CleanAttemptsAll ==
  CleanOver =>
    \A k \in DOMAIN cleanStart :
      /\ cleanStart[k].controller \in attempted
      /\ cleanStart[k].name \notin Names(connections)
      /\ cleanStart[k].connection_process /= 0 =>
           ~procs[cleanStart[k].connection_process].running

\* C10: in a serial run a failure on one target (its connection attempt or its
\* command execution) does not keep the later targets from being visited: when the
\* run is over, the command was run on every target and there is a record for each.
C10_SerialContinues ==
  (RunOver /\ parsed_args.run_type = "serial" /\ ~parsed_args.pre_check
     /\ outcome.error /= "DisconnectError") =>
    /\ \A i \in 1..NumControllers :
         \E k \in DOMAIN cmdCalls :
           cmdCalls[k].command = "command" /\ cmdCalls[k].target = i
    /\ outcome.kind = "return"
    /\ Len(outcome.results) = NumControllers

\* C11: a run (or its pre_check) with run_type batch or parallel leaves the try
\* block with the NotImplementedError of run_batch/run_parallel, never hands a
\* command to run_serial and never invokes a command on any target; run then
\* propagates an exception: that NotImplementedError, unless clean() raised in the
\* finally block.
Unsupported == parsed_args.run_type \in {"batch", "parallel"}

C11_UnsupportedStrategyRaises ==
  ((call = "run" \/ RunOver) /\ Unsupported) =>
    /\ cmdCalls = <<>>
    /\ rpc \notin {"loop", "connect", "command"}
    /\ \A k \in DOMAIN dispatches : dispatches[k].fn /= "run_serial"
    /\ Len(dispatches) <= 1
    /\ dispatches /= <<>> =>
         /\ pending.kind = "raise"
         /\ pending.error = "NotImplementedError"
    /\ RunOver =>
         /\ dispatches /= <<>>
         /\ outcome.kind = "raise"
         /\ outcome.error \in {"NotImplementedError", "DisconnectError"}
         /\ outcome.error = "DisconnectError" => attempted /= {}

\* a parallel run with pre_check propagated the NotImplementedError after clean()
\* closed a registered connection
C11_Witness ==
  /\ RunOver
  /\ parsed_args.run_type = "parallel"
  /\ parsed_args.pre_check
  /\ outcome.kind = "raise"
  /\ outcome.error = "NotImplementedError"
  /\ dispatches[1].fn = "run_parallel"
  /\ attempted /= {}
  /\ connections = <<>>

\* ------------------------------------------------- claims on list-models
\* an execute is over: it returned or raised (its process was not killed)
ExecOver == lout.of = "execute" /\ lpc = "done"

\* the cache entry execute loaded, as load_cache_data hands it on
LoadedEntry ==
  [lastConnect.entry EXCEPT !.data.refresh = FALSE, !.data.has = @ \cup {"refresh"}]

\* execute found a complete entry in the cache
FoundEntry ==
  /\ lastConnect.called
  /\ ~lastConnect.raised
  /\ lastConnect.entry \in CompleteIn(lastConnect.file)

\* the entry execute found is expired (C15's reading) at the time of the call
FoundExpired == lastConnect.entry.timestamp + DEFAULT_TTL_RULE < lout.at

\* C12: execute with refresh not forced and an existing, non-expired cache entry
\* returns the context of the cached entry, and neither lists the models on the
\* live controller nor commits an entry.
C12_CachedEntryReturned ==
  (ExecOver /\ ~kwargs.refresh /\ FoundEntry /\ ~FoundExpired) =>
    /\ lout.kind = "return"
    /\ lout.context = LoadedEntry
    /\ llog.query = 0
    /\ llog.commit = 0

\* C13: whenever refresh is forced, the cache entry is missing (connect failed) or
\* the cache entry is expired, execute lists the models on the live controller
\* exactly once and, the listing done, commits exactly once; with refresh forced the
\* cache is not read and the returned data's refresh flag is true.
NeedsRecompute ==
  \/ kwargs.refresh
  \/ lastConnect.called /\ lastConnect.raised
  \/ FoundEntry /\ FoundExpired

C13_RecomputeOnce ==
  (ExecOver /\ NeedsRecompute) =>
    /\ llog.query = 1
    /\ lout.error /= "JujuError" => llog.commit = 1
    /\ kwargs.refresh =>
         /\ llog.connect = 0
         /\ ~lastConnect.called
         /\ lout.kind = "return" => lout.context.data.refresh = TRUE

\* C14: whatever failure connect or commit produces, execute logs a warning and
\* still returns a context with uuid, name, data and timestamp computed from the
\* live controller (the listing itself succeeding).
LiveContext ==
  FileCacheContext(controller_uuid, controller_name,
                   Data(LiveModels, kwargs.refresh, {"models", "refresh"}), lout.at)

CacheFailed ==
  \/ lastConnect.called /\ lastConnect.raised
  \/ llog.ckind = "raise"

C14_CacheFailuresTolerated ==
  (ExecOver /\ CacheFailed /\ lout.error /= "JujuError") =>
    /\ lout.kind = "return"
    /\ lout.context = LiveContext
    /\ llog.warning >= 1

\* C15: an entry reports expired exactly when timestamp + ttl < now, and not
\* expired when timestamp + ttl >= now (the boundary timestamp + ttl = now included).
ReadExpired == lout.of = "connect" /\ lout.kind = "expired"

C15_ExpiredStrictlyAfterTtl ==
  ReadExpired =>
    LET age == lout.at - lout.context.timestamp
    IN /\ age > DEFAULT_TTL_RULE => lout.expired
       /\ age = DEFAULT_TTL_RULE => ~lout.expired
       /\ age < DEFAULT_TTL_RULE => ~lout.expired

\* at the boundary, timestamp + ttl = now, the entry reports not expired
C15_Witness ==
  /\ ReadExpired
  /\ lout.context.timestamp + DEFAULT_TTL_RULE = lout.at
  /\ lout.context \in complete
  /\ ~lout.expired

\* C16: connect either returns an entry loaded from the file or raises a
\* JujuSpellError: the not-found one when the file is absent, the permission-denied
\* one when it may not be read, and the one wrapping the exception for any other
\* failure (a text that is no mapping of the entry's fields included); nothing else
\* is raised.
Loadable(text) == text.kind = "mapping" /\ text.n >= 1

C17_CommitErrors ==
  llog.commit = 1 =>
    /\ llog.ckind = "return" =>
         /\ cache_directory = "exists"
         /\ CompleteIn(cache_file) = {file_cache}
    /\ llog.ckind = "raise" => IsJujuSpellError(llog.cerror)

\* C18: after a writer was killed at any point of commit, a later connect returns
\* the complete previous entry or the complete new entry, or raises a
\* JujuSpellError: never an entry built from a partly written file.
C18_NeverPartiallyUpdated ==
  (lastConnect.called /\ lastConnect.file.last_write = "killed"
     /\ ~lastConnect.raised) =>
    lastConnect.entry \in complete

\* ---- GrantCommand and AddUserCommand

\* the calls of op logged so far
UserCalls(op) == {i \in 1..Len(ulog) : ulog[i].op = op}
\* the grant calls (controller-level and per-model) that raised JujuError
Conflicts == {i \in 1..Len(ulog) : ulog[i].op \in {"grant", "grant_model"} /\ ~ulog[i].ok}
\* all grant calls
Grants == UserCalls("grant") \cup UserCalls("grant_model")
\* the conflict of call i was logged
Logged(i) == i < Len(ulog) /\ ulog[i + 1].op = "fail" /\ ulog[i + 1].model = ulog[i].model
\* a top-level GrantCommand.execute is over
GrantOver == uargs.command = "grant" /\ upc = "done"

\* C19: a JujuError raised by a grant sub-step (the controller-level grant or a
\* per-model grant) is logged; with overwrite set execute goes on with the
\* remaining models and returns True, with overwrite unset it raises the error
\* and stops.
C19_OverwriteToleratesConflicts ==
  GrantOver =>
    /\ \A i \in Conflicts : Logged(i)
    /\ uargs.overwrite =>
         /\ uout.kind = "return"
         /\ uout.value = "True"
         /\ \A m \in 1..NumModels : \E i \in UserCalls("grant_model") : ulog[i].model = m
    /\ (~uargs.overwrite /\ Conflicts /= {}) =>
         /\ uout.kind = "raise"
         /\ uout.error = "JujuError"
         /\ \A i \in Conflicts, j \in Grants : j <= i

\* the part of C19 that holds: the per-model grants
C19_ModelConflictsTolerated ==
  (GrantOver /\ UserCalls("grant") /= {} /\ \A i \in UserCalls("grant") : ulog[i].ok) =>
    /\ \A i \in Conflicts : Logged(i)
    /\ uargs.overwrite =>
         /\ uout.kind = "return"
         /\ uout.value = "True"
         /\ \A m \in 1..NumModels : \E i \in UserCalls("grant_model") : ulog[i].model = m
    /\ (~uargs.overwrite /\ Conflicts /= {}) =>
         /\ uout.kind = "raise"
         /\ \A i \in Conflicts, j \in Grants : j <= i

C19_ModelWitness ==
  /\ GrantOver
  /\ uargs.overwrite
  /\ \E i \in Conflicts, j \in Grants : ulog[i].op = "grant_model" /\ i < j
  /\ uout.value = "True"

\* AddUserCommand.execute is over and got as far as its sub-commands
AddUserOver == uargs.command = "add_user" /\ upc = "done" /\ UserCalls("enable_user") /= {}
\* the sub-commands that failed
EnableFailed == \E i \in UserCalls("enable_user") : ~ulog[i].ok
GrantFailed == gout.kind = "return" /\ ~gout.success
\* the grant sub-command was run
GrantRun == UserCalls("grant") /= {}

\* C20: AddUserCommand runs the enable sub-command before the grant sub-command,
\* runs grant only when an acl is given, with overwrite unset returns the failed
\* Result of the first failing sub-command and runs no later one, and with
\* overwrite set goes on and returns the user record.
C20_SubCommandsShortCircuit ==
  AddUserOver =>
    /\ \A i \in UserCalls("enable_user"), j \in Grants : i < j
    /\ GrantRun => uargs.acl /= None
    /\ (~uargs.overwrite /\ EnableFailed) =>
         /\ uout.kind = "return" /\ uout.value = "Result"
         /\ ~uout.success /\ uout.from = "enable"
         /\ ~GrantRun
    /\ (~uargs.overwrite /\ ~EnableFailed /\ GrantFailed) =>
         /\ uout.kind = "return" /\ uout.value = "Result"
         /\ ~uout.success /\ uout.from = "grant"
    /\ (uargs.overwrite \/ (~EnableFailed /\ ~GrantFailed)) =>
         /\ uout.kind = "return" /\ uout.value = "user_record"
         /\ GrantRun <=> uargs.acl /= None

\* with overwrite set both sub-commands failed and the user record was returned
C20_Witness ==
  /\ AddUserOver
  /\ uargs.overwrite
  /\ EnableFailed
  /\ GrantFailed
  /\ uout.value = "user_record"

\* with overwrite unset the enable sub-command failed and its Result was returned
C20_WitnessShortCircuit ==
  /\ AddUserOver
  /\ ~uargs.overwrite
  /\ uargs.acl /= None
  /\ EnableFailed
  /\ uout.from = "enable"

\* ---- helper functions

\* C21: the pre_check of AddUserCommand and of RemoveUserCommand returns a failed
\* Result (success false, error set), without raising and without any call on
\* the controller, when the user is the controller config's own user, and
\* returns None for every other user.
C21_PreCheckRejectsSelf ==
  applied.fn = "pre_check" =>
    LET p == applied.pre_check
    IN /\ ~p.raised
       /\ p.calls = <<>>
       /\ p.user = p.config_user =>
            /\ p.returns = "Result"
            /\ ~p.result.success
            /\ p.result.error /= None
       /\ p.user /= p.config_user => p.returns = "None"

\* RemoveUserCommand.pre_check was asked about the config's own user
C21_Witness ==
  /\ applied.fn = "pre_check"
  /\ applied.pre_check.command = "remove_user"
  /\ applied.pre_check.user = applied.pre_check.config_user
  /\ applied.pre_check.returns = "Result"

\* get_result was applied
Merged == applied.fn = "get_result"
\* the record get_result returned has the fields context, success, output and
\* error and nothing else, its context is uuid, name and customer of the
\* config, and neither argument was modified
FlatRecord ==
  LET g == applied.get_result
      c == g.controller_config[1]
      rec == g.record[1]
  IN /\ DOMAIN rec = {"context", "success", "output", "error"}
     /\ rec.context = [uuid |-> c.uuid, name |-> c.name, customer |-> c.customer]
     /\ g.config_after = g.controller_config
     /\ g.output_after = g.output

\* C23: get_result(c, r) is the flat record whose context is exactly uuid, name
\* and customer of c and whose success, output and error are exactly those of
\* r, with no other field and with c and r left as they were.
C23_GetResultExact ==
  Merged =>
    /\ FlatRecord
    /\ applied.get_result.record[1].success = applied.get_result.output.success
    /\ applied.get_result.record[1].output = applied.get_result.output.output
    /\ applied.get_result.record[1].error = applied.get_result.output.error

\* C23 as the code has it: success is that of r; output and error are those of r
\* when they hold no dataclass instance, and otherwise the dict of the
\* instance's fields, which is not the value r holds.
C23_GetResultAsDict ==
  Merged =>
    LET g == applied.get_result
        rec == g.record[1]
        Copied(given, got) ==
          IF given \in Dataclasses
          THEN got = DictOf(given) /\ got /= given
          ELSE got = given
    IN /\ FlatRecord
       /\ rec.success = g.output.success
       /\ Copied(g.output.output, rec.output)
       /\ Copied(g.output.error, rec.error)

\* get_result was given the Result of UpdatePackages
C23_Witness ==
  /\ Merged
  /\ applied.get_result.output.output = UpdatesOutput
  /\ applied.get_result.output.success
  /\ applied.get_result.record[1].output = DictOf(UpdatesOutput)

\* a line of the form Inst X [v1] (v2 ...
InstForm(line) ==
  /\ Len(line) >= 4
  /\ line[1] = Plain("Inst")
  /\ line[2].open = "" /\ line[2].close = "" /\ line[2].text /= ""
  /\ line[3].open = "[" /\ line[3].close = "]" /\ line[3].text /= ""
  /\ line[4].open = "(" /\ line[4].text /= ""
\* a line of the form Unpacking X (v2) over (v1)
UnpackingForm(line) ==
  /\ Len(line) >= 5
  /\ line[1] = Plain("Unpacking")
  /\ line[2].open = "" /\ line[2].close = "" /\ line[2].text /= ""
  /\ line[3].open = "(" /\ line[3].close = ")" /\ line[3].text /= ""
  /\ line[4] = Plain("over")
  /\ line[5].open = "(" /\ line[5].close = ")" /\ line[5].text /= ""
\* the triple such a line stands for
TripleOf(line) ==
  IF InstForm(line)
  THEN PackageUpdateResult(line[2].text, line[3].text, line[4].text)
  ELSE PackageUpdateResult(line[2].text, line[5].text, line[3].text)
\* the triples of the lines of either form, in line order
RECURSIVE Triples(_)
Triples(lines) ==
  IF lines = <<>> THEN <<>>
  ELSE IF InstForm(Head(lines)) \/ UnpackingForm(Head(lines))
       THEN <<TripleOf(Head(lines))>> \o Triples(Tail(lines))
       ELSE Triples(Tail(lines))

\* C26: parse_result returns one (name, from_version, to_version) triple for every
\* line of the form Inst X [v1] (v2 ...) or Unpacking X (v2) over (v1), in line
\* order, and ignores every other line (blank, malformed, truncated) without
\* raising.
C26_ParseResultIgnoresOtherLines ==
  applied.fn = "parse_result" =>
    /\ ~applied.parse_result.raised
    /\ applied.parse_result.packages = Triples(applied.parse_result.lines)

\* what holds of parse_result: a text made of lines of the two forms and of lines
\* that start with neither Inst nor Unpacking gives the triples, in line order
C26_WellFormedTextParsed ==
  (/\ applied.fn = "parse_result"
   /\ \A k \in DOMAIN applied.parse_result.lines :
        LET line == applied.parse_result.lines[k]
        IN \/ InstForm(line) \/ UnpackingForm(line)
           \/ line[1] \notin {Plain("Inst"), Plain("Unpacking")})
  => /\ ~applied.parse_result.raised
     /\ applied.parse_result.packages = Triples(applied.parse_result.lines)

C26_WellFormedWitness ==
  /\ applied.fn = "parse_result"
  /\ applied.parse_result.lines = <<UnpackingLine, InstLine>>
  /\ Len(applied.parse_result.packages) = 2

\* C29: set_success_flags sets the unit's success to true exactly when every
\* expected (package, version) pair appears among the unit's parsed packages as
\* (package, to_version); other updated packages do not change the flag.
C29_SuccessIffAllExpected ==
  applied.fn = "set_success_flags" =>
    LET f == applied.set_success_flags
    IN f.success <=>
         \A e \in f.expected :
           \E p \in f.packages : p.package = e.package /\ p.to_version = e.version

\* success with an updated package that was not expected
C29_Witness ==
  /\ applied.fn = "set_success_flags"
  /\ applied.set_success_flags.success
  /\ applied.set_success_flags.expected /= {}
  /\ \E p \in applied.set_success_flags.packages :
       \A e \in applied.set_success_flags.expected : p.package /= e.package

\* error is set if and only if success is false
Consistent(result) == (result.error /= None) <=> ~result.success

\* C22: every Result a command produces (by pre_check, by a sub-command run of a
\* composite command, by make_updates) and every record the runner returns has
\* error set if and only if success is false.
C22_ErrorIffNotSuccess ==
  /\ (applied.fn = "pre_check" /\ applied.pre_check.returns = "Result") =>
       Consistent(applied.pre_check.result)
  /\ (applied.fn = "make_updates" /\ ~applied.make_updates.raised) =>
       Consistent(applied.make_updates.result)
  /\ applied.fn = "run" =>
       /\ Consistent(applied.run.result)
       /\ Consistent(applied.run.record[1])

\* the runner's record of a target whose command was stopped by its pre_check
C22_Witness ==
  /\ applied.fn = "run"
  /\ applied.run.record[1].output = SelfMessage("add_user")
  /\ ~applied.run.record[1].success
  /\ applied.run.record[1].error /= None

\* make_updates returned its Result
C22_WitnessUpdates ==
  /\ applied.fn = "make_updates"
  /\ applied.make_updates.lines /= <<>>
  /\ applied.make_updates.result.success

\* the elements of a sequence
Range(seq) == {seq[k] : k \in DOMAIN seq}

\* C28: the filter of a connection's resources by a label-to-pattern mapping
\* yields, for a null pattern, every resource of the connection and, for a list
\* of patterns, only the resources whose name matches one of them; each resource
\* is yielded at most once, as a (label, resource) pair, and the sequence is
\* finite.
C28_FilterByMapping ==
  applied.fn = "filter" =>
    LET f == applied.filter
        names == Range(f.models)
    IN /\ \A k \in DOMAIN f.pairs :
            /\ DOMAIN f.pairs[k] = {"label", "model"}
            /\ f.pairs[k].model \in names
            /\ \E e \in Range(f.mapping) :
                 /\ e.label = f.pairs[k].label
                 /\ Selected(e.selector, f.pairs[k].model)
                 /\ ~e.selector.null =>
                      \E pattern \in e.selector.patterns : Matches(pattern, f.pairs[k].model)
       /\ \A j, k \in DOMAIN f.pairs : f.pairs[j].model = f.pairs[k].model => j = k
       /\ Len(f.pairs) <= Len(f.models)
       /\ (\E e \in Range(f.mapping) : e.selector.null) =>
            {f.pairs[k].model : k \in DOMAIN f.pairs} = names
       /\ \A e \in Range(f.mapping), name \in names :
            Selected(e.selector, name) => \E k \in DOMAIN f.pairs : f.pairs[k].model = name

\* a list of patterns kept some models and left one out, and a model two labels
\* select was yielded once
C28_Witness ==
  /\ applied.fn = "filter"
  /\ Len(applied.filter.mapping) = 2
  /\ applied.filter.mapping[1].selector = PatternList({"foo.*"})
  /\ applied.filter.mapping[2].selector = PatternList({"foo.*"})
  /\ Len(applied.filter.models) = 3
  /\ Len(applied.filter.pairs) = 2

\* ---- AddUserCommand.execute: the user and the output

\* AddUserCommand.execute is over
AddUserDone == uargs.command = "add_user" /\ upc = "done"
\* get_user found no user
UserAbsent == \E i \in UserCalls("get_user") : ulog[i].args[2] = None
\* the password execute works with: the given one, or a random one when none
\* (the empty string) was given
UsedPassword == IF uargs.password = "" THEN random_password ELSE uargs.password

C30_WitnessExisting ==
  /\ AddUserDone
  /\ ~UserAbsent
  /\ uargs.overwrite
  /\ UserCalls("set_password") /= {}
  /\ uout.value = "user_record"

\* ---- ConnectManager._connect: tunnels

\* _connect reaches its await: the subprocesses spawned on the way are one ssh
\* port forwarding on a port of the range for a target with a tunnel spec, one
\* sshuttle when sshuttle is asked for, none for a target without tunnel spec
SpawnedAsConfigured ==
  (mpc' = "dial" /\ mpc /= "dial") =>
    LET cfg == Controllers[gc'.target]
        new == DOMAIN procs' \ DOMAIN procs
    IN IF cfg.connection /\ ~gc'.sshuttle
       THEN \E p \in new :
              /\ new = {p}
              /\ procs'[p].kind = "ssh"
              /\ procs'[p].target = gc'.target
              /\ procs'[p].port \in port_range
              /\ gc'.connection_process = p
              /\ gc'.local_endpoint = procs'[p].port
       ELSE IF cfg.connection
       THEN \E p \in new :
              /\ new = {p}
              /\ procs'[p].kind = "sshuttle"
              /\ procs'[p].target = gc'.target
              /\ gc'.connection_process = p
              /\ gc'.local_endpoint = 0
       ELSE new = {} /\ gc'.connection_process = 0
\* the dial goes to the forwarded local port, or to the remote endpoint when no
\* port is forwarded, and spawns nothing
DialledAsConfigured ==
  (mpc = "dial" /\ mpc' /= "dial") =>
    LET cfg == Controllers[gc.target]
    IN /\ procs' = procs
       /\ handles'[gc.controller].endpoint =
            IF cfg.connection /\ ~gc.sshuttle
            THEN <<"localhost", procs[gc.connection_process].port>>
            ELSE cfg.endpoint

\* C24: a new connection of a target with a tunnel spec, without sshuttle, spawns
\* exactly one port-forwarding subprocess from a selected local port to the
\* target and dials that local port; with sshuttle it spawns exactly one sshuttle
\* subprocess and dials the remote endpoint; for a target without tunnel spec it
\* spawns nothing and dials the remote endpoint.
C24_TunnelAsConfigured == [][SpawnedAsConfigured /\ DialledAsConfigured]_vars

\* get_controller made a new connection through a forwarded port
C24_Witness ==
  /\ outcome.of = "get_controller"
  /\ outcome.kind = "return"
  /\ gcPath = "connect"
  /\ gc.connection_process /= 0
  /\ procs[gc.connection_process].kind = "ssh"
  /\ handles[outcome.handle].endpoint = <<"localhost", procs[gc.connection_process].port>>

\* get_controller made a new connection through sshuttle
C24_WitnessSshuttle ==
  /\ outcome.of = "get_controller"
  /\ outcome.kind = "return"
  /\ gc.connection_process /= 0
  /\ procs[gc.connection_process].kind = "sshuttle"
  /\ handles[outcome.handle].endpoint = Controllers[gc.target].endpoint

\* ---- get_free_tcp_port

\* _connect was applied to a target whose port is forwarded
Probed == applied.fn = "connect" /\ applied.connect.probes /= <<>>
PortsOf(list) == {list[k] : k \in DOMAIN list}

\* C25: get_free_tcp_port returns a port of the range that was probed free, having
\* probed each port of the range at most once; it raises its error exactly when
\* no port of the range is free (an empty range included), and then _connect has
\* spawned no subprocess and written no registry entry.
C25_FreePortOrError ==
  (/\ applied.fn = "connect"
   /\ Controllers[applied.connect.target].connection
   /\ ~applied.connect.sshuttle)
  => LET c == applied.connect
         range == PortsOf(c.list_of_ports)
     IN /\ \A a, b \in DOMAIN c.probes : c.probes[a] = c.probes[b] => a = b
        /\ PortsOf(c.probes) \subseteq range
        /\ (c.raised = "ValueError") <=> (range \cap c.free = {})
        /\ c.raised = "ValueError" =>
             /\ c.spawned = <<>>
             /\ ~c.registered
             /\ PortsOf(c.probes) = range
        /\ c.raised /= "ValueError" =>
             /\ c.port \in range
             /\ c.port \in c.free
             /\ c.port = c.probes[Len(c.probes)]
             /\ c.spawned = <<[kind |-> "ssh", port |-> c.port]>>
        /\ (IF c.raised = "ValueError" THEN 0 ELSE c.port)
             \in get_free_tcp_port(range, c.free)

\* a busy port was probed before the free one was returned
C25_Witness ==
  /\ applied.fn = "connect"
  /\ Len(applied.connect.probes) = 2
  /\ applied.connect.raised = None
  /\ applied.connect.port \in applied.connect.free
  /\ applied.connect.registered

\* every port of a range of two was busy
C25_WitnessNoFreePort ==
  /\ applied.fn = "connect"
  /\ Len(applied.connect.probes) = 2
  /\ applied.connect.raised = "ValueError"
  /\ applied.connect.spawned = <<>>

\* the range was empty
C25_WitnessEmptyRange ==
  /\ applied.fn = "connect"
  /\ Controllers[applied.connect.target].connection
  /\ ~applied.connect.sshuttle
  /\ applied.connect.list_of_ports = <<>>
  /\ applied.connect.raised = "ValueError"

\* in the runner: the step on which get_free_tcp_port raises spawns no
\* subprocess and leaves the registry as it was
C25_RunnerNoSpawn ==
  [][(outcome'.kind = "raise" /\ outcome'.error = "ValueError" /\ outcome /= outcome')
       => (DOMAIN procs' \subseteq DOMAIN procs /\ connections' = connections)]_vars

\* ---- the registry under concurrent tasks

\* the handles and the subprocesses made for target i
HandlesFor(i) == {h \in DOMAIN handles : handles[h].target = i}
ProcsFor(i) == {p \in DOMAIN procs : procs[p].target = i}
\* every task that called has returned a controller, and none asked to reconnect
AllReturned ==
  \A t \in 1..NumTasks :
    tasks[t].pc = "idle" \/ (tasks[t].pc = "done" /\ tasks[t].raised = None
                             /\ ~tasks[t].reconnect)
\* the tasks that made a new connection to target i
Connecting(i) ==
  {t \in 1..NumTasks : tasks[t].target = i /\ tasks[t].path = "connect"}

\* C27: when tasks call get_controller for the same target concurrently, at most
\* one connection and at most one tunnel subprocess is created for the target,
\* and every connection and tunnel created is in the registry.
C27_OneConnectionPerTarget ==
  AllReturned =>
    \A i \in 1..NumControllers :
      /\ Cardinality(HandlesFor(i)) <= 1
      /\ Cardinality(ProcsFor(i)) <= 1
      /\ \A h \in HandlesFor(i) : \E k \in DOMAIN connections : connections[k].controller = h
      /\ \A p \in ProcsFor(i) :
           \E k \in DOMAIN connections : connections[k].connection_process = p

\* what the code does instead: every task that finds no entry at line 231 makes
\* its own connection, and the registry keeps the one written last
C27_OnePerConnectingTask ==
  AllReturned =>
    \A i \in 1..NumControllers :
      /\ Cardinality(HandlesFor(i)) = Cardinality(Connecting(i))
      /\ Cardinality({k \in DOMAIN connections : connections[k].name = Controllers[i].name}) <= 1

\* two tasks dialled the same target at the same time, and the first connection
\* and its tunnel are no longer in the registry
C27_Orphaned ==
  /\ AllReturned
  /\ \E i \in 1..NumControllers :
       /\ Cardinality(HandlesFor(i)) = 2
       /\ Cardinality(ProcsFor(i)) = 2
       /\ \E h \in HandlesFor(i) :
            /\ handles[h].connected
            /\ \A k \in DOMAIN connections : connections[k].controller /= h

\* ---- run with pre_check: one dial per target

\* run is the first call, with pre_check, and is still inside its try block
FirstRunWithPreCheck ==
  /\ call = "run"
  /\ ncalls = 1
  /\ parsed_args.pre_check
  /\ rpc \in {"dispatch", "loop", "connect", "command", "finally"}
\* every handle made so far is connected, but for the one being dialled: no dial
\* has failed and no connection was lost
AllStillConnected ==
  \A h \in DOMAIN handles :
    handles[h].connected \/ (mpc = "dial" /\ gc.controller = h)
\* at most one handle dialled and one subprocess spawned per target
OneDialPerTarget ==
  \A i \in 1..NumControllers :
    /\ Cardinality(HandlesFor(i)) <= 1
    /\ Cardinality(ProcsFor(i)) <= 1
\* get_controller of the main pass finds the target's registered handle connected
\* and returns that handle, making and spawning nothing
MainReusesHandle ==
  (/\ call = "run"
   /\ parsed_args.pre_check
   /\ phase = "main"
   /\ mpc = "begin"
   /\ mpc' /= "begin"
   /\ Get(connections, Controllers[gc.target].name) /= NoConnection
   /\ handles[Get(connections, Controllers[gc.target].name).controller].connected)
  => /\ gcPath' = "cache"
     /\ controller' = Get(connections, Controllers[gc.target].name).controller
     /\ handles' = handles
     /\ procs' = procs

\* C31: in a run with pre_check where every target is reachable, each target is
\* dialled at most once and gets at most one tunnel subprocess; the main pass
\* reuses the registered handle of the pre-check as long as it is connected.
C31_OneDialPerRun ==
  /\ [](FirstRunWithPreCheck /\ AllStillConnected => OneDialPerTarget)
  /\ [][MainReusesHandle]_vars

\* both passes are over: every target was pinged and then given the command, on
\* one handle and one tunnel
C31_Witness ==
  /\ FirstRunWithPreCheck
  /\ AllStillConnected
  /\ rpc = "finally"
  /\ phase = "main"
  /\ pending.kind = "return"
  /\ Len(cmdCalls) = 2 * NumControllers
  /\ gcPath = "cache"
  /\ \A i \in 1..NumControllers : Cardinality(HandlesFor(i)) = 1
  /\ \E i \in 1..NumControllers : Cardinality(ProcsFor(i)) = 1

\* ---- run: what clean leaves behind

\* the run was the first call and ended with no disconnect having failed
FirstRunOver ==
  /\ RunOver
  /\ ncalls = 1
  /\ outcome.error /= "DisconnectError"
\* subprocess p was in the registry at some time of the first run: every
\* subprocess but the one of a dial that failed
WasRegistered(p) == ~(outcome.error = "ConnectError" /\ gc.connection_process = p)

\* C32: when run is over and no disconnect failed, the registry is empty, every
\* handle registered during the run is disconnected and every tunnel subprocess
\* registered during the run is terminated.
C32_RunLeavesNothing ==
  FirstRunOver =>
    /\ connections = <<>>
    /\ \A h \in DOMAIN handles : ~handles[h].connected
    /\ \A p \in DOMAIN procs : WasRegistered(p) => ~procs[p].running

\* what holds of the code: the entries clean() found are closed and removed
C32_CleanClosesItsEntries ==
  FirstRunOver =>
    /\ connections = <<>>
    /\ \A h \in DOMAIN handles : ~handles[h].connected
    /\ \A k \in DOMAIN cleanStart :
         cleanStart[k].connection_process /= 0 =>
           ~procs[cleanStart[k].connection_process].running

\* the run is over and a tunnel that was registered during it is still running
C32_LeftRunning ==
  /\ FirstRunOver
  /\ outcome.kind = "return"
  /\ \E p \in DOMAIN procs : WasRegistered(p) /\ procs[p].running

\* ---- run_serial: the keyword arguments of command.run

\* every invocation got the config of the target its handle is connected to
ConfigMatchesHandle ==
  \A k \in DOMAIN cmdCalls :
    /\ cmdCalls[k].controller \in DOMAIN handles
    /\ cmdCalls[k].controller_config = handles[cmdCalls[k].controller].target
    /\ cmdCalls[k].controller_config = cmdCalls[k].target
\* the Namespace of the caller is as it was handed to run (no controller_config)
ArgsUntouched ==
  (call = "run" \/ RunOver) => parsed_args.controller_config = 0

\* C33: in a serial run every command invocation, of the pre-check pass and of
\* the main pass, receives the config of the target whose handle it is given, and
\* run does not modify the caller's parsed arguments.
C33_ConfigPerTargetArgsUntouched == ConfigMatchesHandle /\ ArgsUntouched

\* what holds of the code: the first half alone
C33_ConfigPerTarget == ConfigMatchesHandle

\* a run returned after both passes and the caller's Namespace has gained the
\* controller_config of the last target
C33_ArgsModified ==
  /\ RunOver
  /\ outcome.kind = "return"
  /\ Len(cmdCalls) = 2 * NumControllers
  /\ parsed_args.controller_config = NumControllers

\* ---- FileCache: the file a commit writes

\* the commits of the log
FcCommits == {k \in DOMAIN fclog : fclog[k].op = "commit"}
\* a commit with a name writes the file of that name only
NamedCommitsWriteOwnFile ==
  \A k \in FcCommits : fclog[k].key /= NoKey => fclog[k].written \subseteq {fclog[k].key}
\* a commit without name raises the missing-name error and writes nothing
NamelessCommitsRaise ==
  \A k \in FcCommits :
    fclog[k].key = NoKey =>
      /\ fclog[k].kind = "raise"
      /\ fclog[k].error = MissingName
      /\ fclog[k].written = {}

\* C34: after any connect and commit calls, the commit of a newly created entry
\* writes only the file of the key it is given, and without a name it fails with
\* the missing-name error instead of writing the file of an earlier connect.
C34_CommitWritesOwnKeyOnly == NamedCommitsWriteOwnFile /\ NamelessCommitsRaise

\* what holds of the code: the part about commits that are given a name
C34_NamedCommitsWriteOwnFile == NamedCommitsWriteOwnFile

\* a new entry committed without a name has replaced the file an earlier connect
\* read
C34_OverwroteConnectedKey ==
  \E k \in FcCommits : \E j \in 1..(k - 1) :
    /\ fclog[j].op = "connect"
    /\ fclog[j].kind = "return"
    /\ fclog[k].key = NoKey
    /\ fclog[k].kind = "return"
    /\ fclog[k].written = {fclog[j].key}
    /\ fclog[k].entry.uuid /= fclog[j].entry.uuid

\* ---- FileCache: round trip

\* connect k returned, and the last commit that wrote the file of its key before
\* it is commit j, which returned
ReadsBack(j, k) ==
  /\ fclog[k].op = "connect"
  /\ fclog[k].kind = "return"
  /\ j < k
  /\ fclog[j].op = "commit"
  /\ fclog[j].kind = "return"
  /\ fclog[j].written = {fclog[k].key}
  /\ \A m \in (j + 1)..(k - 1) : fclog[k].key \notin fclog[m].written

SetsPassword(p) ==
  {i \in UserCalls("add_user") : ulog[i].ok /\ ulog[i].args[2] = p}
  \cup {i \in UserCalls("set_password") : ulog[i].ok /\ ulog[i].args[1] = p}
\* execute returned the user record
RecordReturned == AddUserDone /\ uout.kind = "return" /\ uout.value = "user_record"

\* C36: whenever execute returns the user record, the password of the record is
\* the one this execution set for the user on the controller, for a new user and
\* for an existing one, with overwrite set or unset.
C36_RecordPasswordWasSet ==
  RecordReturned => SetsPassword(uout.record.password) /= {}

\* what holds of the code: the password of the record was set unless the user
\* existed and overwrite was unset, and then no password was set at all
C36_SetUnlessExistingKept ==
  RecordReturned =>
    IF UserAbsent \/ uargs.overwrite
    THEN SetsPassword(uout.record.password) /= {}
    ELSE UserCalls("add_user") \cup UserCalls("set_password") = {}

\* the user existed, overwrite was unset, and the record carries a password no
\* call has set
C36_PasswordNeverSet ==
  /\ RecordReturned
  /\ ~UserAbsent
  /\ ~uargs.overwrite
  /\ uout.record.password = random_password
  /\ UserCalls("add_user") \cup UserCalls("set_password") = {}

\* ---- RemoveUserCommand.execute: the steps

\* C37: RemoveUserCommand.execute revokes read access on every filtered model,
\* then revokes login, then disables the user; every step is attempted exactly
\* once whatever failed before, a failure is only logged, and True is returned.
C37_RemoveStepsInOrder ==
  applied.fn = "remove_user" =>
    LET r == applied.remove_user
        n == Len(r.models)
    IN /\ Len(r.calls) = n + 2
       /\ \A k \in 1..n :
            /\ r.calls[k].op = "revoke_model"
            /\ r.calls[k].model = r.models[k]
            /\ r.calls[k].acl = "read"
       /\ r.calls[n + 1].op = "revoke" /\ r.calls[n + 1].acl = "login"
       /\ r.calls[n + 2].op = "disable_user"
       /\ \A k \in 1..(n + 2) : r.calls[k].success <=> k \notin r.failing
       /\ Len(r.warnings) = Cardinality(r.failing)
       /\ r.returned = "True"

\* the first model's revoke and the login revoke failed, and the user was still
\* disabled
C37_Witness ==
  /\ applied.fn = "remove_user"
  /\ Len(applied.remove_user.models) = 2
  /\ applied.remove_user.failing = {1, 3}
  /\ Len(applied.remove_user.calls) = 4
  /\ applied.remove_user.calls[4].op = "disable_user"
  /\ applied.remove_user.calls[4].success
  /\ Len(applied.remove_user.warnings) = 2
  /\ applied.remove_user.returned = "True"

\* ---- make_updates: one result per model

\* the number of applications of the model that entry k of the specification
\* matches
MatchCount(model, update) ==
  Cardinality({a \in DOMAIN JujuApplications(model) :
                 ReMatch(update.name_expr, JujuApplications(model)[a].app)})
\* the units of the model
UnitsOf(model) ==
  UNION {PortsOf(JujuApplications(model)[a].units) : a \in DOMAIN JujuApplications(model)}
\* the unit commands that should run on the pairs
Planned(pairs, updates) ==
  Concat([k \in DOMAIN pairs |->
            Invocations(pairs[k].model, set_apps_to_update(pairs[k].model, updates, FALSE))])

\* C38: make_updates leaves the caller's update specification unchanged; the
\* result stored for a model holds the applications and units of that model only,
\* nothing accumulated from an earlier model; every unit command is invoked at
\* most once, and exactly once when make_updates returns.
C38_ModelsIsolated ==
  applied.fn = "updates" =>
    LET r == applied.updates
    IN /\ r.updates_after = r.updates
       /\ \A o \in DOMAIN r.output :
            \A k \in DOMAIN r.output[o].result :
              LET stored == r.output[o].result[k].results
              IN /\ Len(stored) = MatchCount(r.output[o].model, r.updates[k])
                 /\ \A x \in DOMAIN stored :
                      /\ \E a \in DOMAIN JujuApplications(r.output[o].model) :
                           JujuApplications(r.output[o].model)[a].app = stored[x].application
                      /\ \A u \in DOMAIN stored[x].units :
                           /\ stored[x].units[u].unit \in UnitsOf(r.output[o].model)
                           /\ stored[x].units[u].done
       /\ \A a, b \in DOMAIN r.calls :
            (/\ r.calls[a].model = r.calls[b].model
             /\ r.calls[a].entry = r.calls[b].entry
             /\ r.calls[a].unit = r.calls[b].unit) => a = b
       /\ Len(r.calls) <= Len(Planned(r.pairs, r.updates))
       /\ \A a \in DOMAIN r.calls :
            [r.calls[a] EXCEPT !.command = 0] = [Planned(r.pairs, r.updates)[a] EXCEPT !.command = 0]
       /\ ~r.raised => Len(r.calls) = Len(Planned(r.pairs, r.updates))

\* three models, two of them with an application of the same name and a unit of
\* the same name, were updated one after the other
C38_Witness ==
  /\ applied.fn = "updates"
  /\ ~applied.updates.raised
  /\ Len(applied.updates.pairs) = 3
  /\ Len(applied.updates.output) = 2
  /\ Len(applied.updates.updates) = 2
  /\ Len(applied.updates.calls) = 8

\* the second unit command raised: nothing was retried and nothing run after it
C38_WitnessRaised ==
  /\ applied.fn = "updates"
  /\ applied.updates.raised
  /\ Len(applied.updates.calls) = 2
  /\ Len(applied.updates.pairs) = 3

\* ---- GrantCommand: the acl of the controller-level and of the model-level grant

\* the mapping as the specification words it
ControllerAclOf(acl) ==
  IF acl \in {"login", "add-model", "superuser"} THEN acl
  ELSE IF acl \in {"read", "write", "admin"} THEN "login"
  ELSE "undefined"
ModelAclOf(acl) ==
  IF acl \in {"read", "write", "admin"} THEN acl
  ELSE IF acl = "superuser" THEN "admin"
  ELSE IF acl \in {"login", "add-model"} THEN "read"
  ELSE "undefined"
\* GrantCommand.execute has made its controller-level grant
GrantBegun == gpc = "models" \/ GrantOver \/ gout.from = "grant"

\* C39: GrantCommand.execute issues exactly one controller-level grant, before
\* any model-level grant, with login, add-model and superuser mapped to
\* themselves and read, write and admin mapped to login; every model-level grant
\* carries read, write and admin as they are, admin for superuser and read for
\* login and add-model, and when execute returns every filtered model was
\* granted once.
C39_GrantAclMapping ==
  /\ Cardinality(UserCalls("grant")) <= 1
  /\ GrantBegun => Cardinality(UserCalls("grant")) = 1
  /\ \A i \in UserCalls("grant") :
       /\ ulog[i].acl = ControllerAclOf(uargs.acl)
       /\ \A j \in UserCalls("grant_model") : i < j
  /\ UserCalls("grant_model") /= {} => UserCalls("grant") /= {}
  /\ \A j \in UserCalls("grant_model") : ulog[j].acl = ModelAclOf(uargs.acl)
  /\ (GrantOver /\ uout.kind = "return") =>
       \A m \in 1..NumModels :
         Cardinality({j \in UserCalls("grant_model") : ulog[j].model = m}) = 1

\* a model acl was granted: login on the controller, the acl itself on every model
C39_Witness ==
  /\ GrantOver
  /\ uout.kind = "return"
  /\ uargs.acl = "write"
  /\ \E i \in UserCalls("grant") : ulog[i].acl = "login"
  /\ Cardinality(UserCalls("grant_model")) = NumModels

\* a controller acl was granted: the acl itself on the controller, read on the
\* models
C39_WitnessControllerAcl ==
  /\ GrantOver
  /\ uout.kind = "return"
  /\ uargs.acl = "add-model"
  /\ \E i \in UserCalls("grant") : ulog[i].acl = "add-model"
  /\ \E j \in UserCalls("grant_model") : ulog[j].acl = "read"

====
